---- MODULE Spec2Model ----
(***************************************************************************)
(* Model of the iTop report rollups (src/itop_report.py).                  *)
(*                                                                         *)
(* The data source is a bounded ticket table `db`; main() fetches the ten  *)
(* rollup tables in the order of src/itop_report.py:807-816.  Every query  *)
(* is an operator over `db` written from its SQL text, with SQL's          *)
(* three-valued logic made explicit (a comparison with NULL is not TRUE).  *)
(* After the data block main() exports the document view when the export   *)
(* button was pressed (src/pdf_generator.py) and renders the interactive   *)
(* view.                                                                   *)
(*                                                                         *)
(* Other variables: `env` is what one invocation finds (the export button, *)
(* the query at which the data source fails, whether the installed pandas  *)
(* lets DataFrame(frame) share the frame's columns, what is wrong with the *)
(* document: font file missing or build failing); `calls` counts the       *)
(* executions of each rollup function; `floated` names the rollup frames   *)
(* whose rate column was overwritten in place; `pdf` and `view` are the    *)
(* two views; `errors` are the messages shown with st.error.               *)
(*                                                                         *)
(* Names: Chinese literals of the source are written in ASCII:             *)
(*   '应用' -> "App", '未分类' -> "Unclassified", '总计' -> "Total",       *)
(*   '服务请求' -> "request", '事件' -> "incident", '变更' -> "change".    *)
(***************************************************************************)
EXTENDS Integers, Sequences, FiniteSets, TLC

VARIABLES db, start_date, end_date, pc,
          ticket_summary, user_request_stats, incident_stats, change_stats,
          team_stats, person_stats, unresolved_tickets, overdue_tickets,
          infra_kpi_stats, app_kpi_stats,
          env, calls, floated, pdf, view, errors

vars == <<db, start_date, end_date, pc,
          ticket_summary, user_request_stats, incident_stats, change_stats,
          team_stats, person_stats, unresolved_tickets, overdue_tickets,
          infra_kpi_stats, app_kpi_stats,
          env, calls, floated, pdf, view, errors>>

results == <<ticket_summary, user_request_stats, incident_stats, change_stats,
             team_stats, person_stats, unresolved_tickets, overdue_tickets,
             infra_kpi_stats, app_kpi_stats>>

----------------------------------------------------------------------------
(* Bounds *)

\* number of rows of the ticket table
MaxTickets == 2

\* number of rows of the ticket table in the KPI pivot specification
KpiTickets == 3

----------------------------------------------------------------------------
(* SQL values *)

\* SQL NULL of a string-valued column or expression
NULL == "NULL"

\* SQL NULL of a number-valued expression (SUM over no rows)
NULLNUM == -1

\* COALESCE(a, b)
COALESCE(a, b) == IF a # NULL THEN a ELSE b

\* a <> b is TRUE (not FALSE, not NULL)
SqlNe(a, b) == a # NULL /\ a # b

\* a NOT IN S is TRUE
SqlNotIn(a, S) == a # NULL /\ a \notin S

\* a IN S is TRUE
SqlIn(a, S) == a # NULL /\ a \in S

RECURSIVE SumOver(_, _)
\* SUM over the rows S of the values f[row]
SumOver(S, f) ==
    IF S = {} THEN 0
    ELSE LET x == CHOOSE y \in S : TRUE
         IN  f[x] + SumOver(S \ {x}, f)

\* round-half-up of n / d for n >= 0, d > 0
RoundDiv(n, d) == (2 * n + d) \div (2 * d)

\* ROUND(r / NULLIF(t, 0) * 100.0, 2): the quotient of two exact numbers is
\* rounded to 4 decimals (div_precision_increment), then scaled; the value
\* is given in hundredths of a percent.
RateDivFirst(r, t) == IF t = 0 THEN NULLNUM ELSE RoundDiv(r * 10000, t)

\* ROUND(n * 100.0 / NULLIF(c, 0), 2): the quotient has 1 + 4 decimals, the
\* outer ROUND keeps 2; the value is given in hundredths of a percent.
RateMulFirst(n, c) ==
    IF c = 0 THEN NULLNUM ELSE RoundDiv(RoundDiv(n * 100 * 100000, c), 1000)

----------------------------------------------------------------------------
(* The data source: dimension tables (fixed) and the ticket table (db) *)

\* table service: id -> name
service == [s1 |-> "Net", s2 |-> "Db", s3 |-> "App"]

\* table servicesubcategory: id -> name
servicesubcategory == [c1 |-> "X", c2 |-> "Y", c3 |-> "X", c4 |-> "Z"]

\* table contact: id -> name, finalclass
contact == [t1 |-> [name |-> "TeamA", finalclass |-> "Team"],
            t2 |-> [name |-> "TeamB", finalclass |-> "Team"],
            p1 |-> [name |-> "Li", finalclass |-> "Person"],
            p2 |-> [name |-> "Wang", finalclass |-> "Person"]]

\* table person: id -> first_name
person == [p1 |-> [first_name |-> "Lei"], p2 |-> [first_name |-> "Fang"]]

\* calendar days of the model: 0 = Dec 31, 1 = Jan 1, 2 = Jan 15, 3 = Feb 1,
\* 4 = Feb 29, 5 = Mar 1; DATE_FORMAT(d, '%Y-%m') and
\* DATE_FORMAT(d, '%Y年%m月') name the same month
DATE_FORMAT(d) ==
    IF d < 1 THEN "2023-12"
    ELSE IF d \in {1, 2} THEN "2024-01" ELSE IF d \in {3, 4} THEN "2024-02" ELSE "2024-03"

\* LEFT JOIN service s ON subquery.service_id = s.id : s.name
s_name(t) == IF t.service_id \in DOMAIN service THEN service[t.service_id] ELSE NULL

\* LEFT JOIN servicesubcategory s2 ON subquery.servicesubcategory_id = s2.id : s2.name
s2_name(t) ==
    IF t.servicesubcategory_id \in DOMAIN servicesubcategory
    THEN servicesubcategory[t.servicesubcategory_id] ELSE NULL

\* finalclass values of the rows of table `change`
ChangeClasses == {"NormalChange"}

\* tr.status: the status of the ticket_request row joined to t, NULL if none
tr_status(t) == IF t.finalclass = "UserRequest" THEN t.status ELSE NULL

\* ti.status: the status of the ticket_incident row joined to t, NULL if none
ti_status(t) == IF t.finalclass = "Incident" THEN t.status ELSE NULL

\* c.status: the status of the `change` row joined to t, NULL if none
c_status(t) == IF t.finalclass \in ChangeClasses THEN t.status ELSE NULL

\* tr.tto_100_passed, tr.ttr_100_passed: a column of the ticket_request row
\* joined to t, NULL if none
tr_flag(t, col) == IF t.finalclass = "UserRequest" THEN t[col] ELSE NULLNUM

\* the period read with its end included
InPeriod_Inclusive(t, s, e) == t.start_date >= s /\ t.start_date <= e

\* t.start_date >= %(start_date)s AND t.start_date < %(end_date)s
InPeriod(t, s, e) == t.start_date >= s /\ t.start_date < e

----------------------------------------------------------------------------
(* Bounded ticket tables: a table is a sequence of ticket rows; rows are   *)
(* drawn from the product of per-column value lists and, being a bag, are  *)
(* enumerated in non-decreasing code order.                                *)

Columns == <<"finalclass", "status", "start_date", "tto_100_passed", "ttr_100_passed",
             "service_id", "servicesubcategory_id", "team_id", "agent_id">>

\* the timestamps read by the duration columns of the team and agent
\* statistics; value lists that leave them out stand for tickets in which
\* they are NULL
TimeColumns == <<"tto_started", "tto_stopped", "ttr_stopped", "end_date">>

\* the columns the value lists dom give values to
ColumnsOf(dom) == IF "tto_started" \in DOMAIN dom THEN Columns \o TimeColumns ELSE Columns

\* the timestamp column c of ticket t
Timestamp(t, c) == IF c \in DOMAIN t THEN t[c] ELSE NULLNUM

RECURSIVE Below(_, _)
\* product of the sizes of the value lists of columns 1..k
Below(dom, k) == IF k = 0 THEN 1 ELSE Len(dom[ColumnsOf(dom)[k]]) * Below(dom, k - 1)

\* the ticket row with code c (mixed radix over the value lists)
Decode(dom, c) ==
    [col \in {ColumnsOf(dom)[k] : k \in 1..Len(ColumnsOf(dom))} |->
        LET k == CHOOSE j \in 1..Len(ColumnsOf(dom)) : ColumnsOf(dom)[j] = col
        IN  dom[col][((c \div Below(dom, k - 1)) % Len(dom[col])) + 1]]

\* the non-decreasing sequences of n codes in lo..hi
SortedCodes(n, lo, hi) ==
    {cs \in [1..n -> lo..hi] : \A i \in 1..(n - 1) : cs[i] <= cs[i + 1]}

\* all ticket tables of n rows over the value lists dom
Tables(dom, n) ==
    LET last == Below(dom, Len(ColumnsOf(dom))) - 1
        row == [c \in 0..last |-> Decode(dom, c)]
    IN  {[i \in 1..n |-> row[cs[i]]] : cs \in SortedCodes(n, 0, last)}

\* value lists: status breakdowns and lists
StatusDom ==
    [finalclass |-> <<"UserRequest", "Incident", "NormalChange", "Problem">>,
     status |-> <<"new", "assigned", "resolved", "closed">>,
     start_date |-> <<2, 5>>,
     tto_100_passed |-> <<0, 1>>,
     ttr_100_passed |-> <<0>>,
     service_id |-> <<"s1">>,
     servicesubcategory_id |-> <<NULL>>,
     team_id |-> <<"t1">>,
     agent_id |-> <<"p1">>]

\* value lists: team and agent statistics
TeamDom ==
    [finalclass |-> <<"UserRequest", "Incident", "NormalChange">>,
     status |-> <<"assigned", "closed">>,
     start_date |-> <<2, 3>>,
     tto_100_passed |-> <<0, 1>>,
     ttr_100_passed |-> <<0>>,
     service_id |-> <<"s1">>,
     servicesubcategory_id |-> <<NULL>>,
     team_id |-> <<NULL, "t1">>,
     agent_id |-> <<NULL, "p1">>]

\* value lists: KPI tables, services and sub-services
KpiDom ==
    [finalclass |-> <<"UserRequest", "Incident">>,
     status |-> <<"assigned", "resolved", "closed">>,
     start_date |-> <<2>>,
     tto_100_passed |-> <<0>>,
     ttr_100_passed |-> <<0, 1>>,
     service_id |-> <<NULL, "s1", "s2", "s3">>,
     servicesubcategory_id |-> <<NULL, "c1">>,
     team_id |-> <<"t1">>,
     agent_id |-> <<"p1">>]

\* value lists: the bounds of the period (the period is [1, 5))
PeriodDom ==
    [finalclass |-> <<"UserRequest", "Incident", "NormalChange", "Problem">>,
     status |-> <<"assigned", "closed">>,
     start_date |-> <<0, 1, 4, 5>>,
     tto_100_passed |-> <<0, 1>>,
     ttr_100_passed |-> <<0>>,
     service_id |-> <<"s1">>,
     servicesubcategory_id |-> <<NULL>>,
     team_id |-> <<"t1">>,
     agent_id |-> <<"p1">>]

\* value lists: the two views
ViewDom ==
    [finalclass |-> <<"UserRequest", "Incident", "NormalChange">>,
     status |-> <<"assigned", "resolved", "closed">>,
     start_date |-> <<2, 3, 5>>,
     tto_100_passed |-> <<0>>,
     ttr_100_passed |-> <<0>>,
     service_id |-> <<"s1">>,
     servicesubcategory_id |-> <<NULL>>,
     team_id |-> <<"t1">>,
     agent_id |-> <<"p1">>]

\* value lists: durations of the team and agent statistics (timestamps in
\* seconds, day d beginning at d * 86400; whole minutes, so that AVG is exact)
TimeDom ==
    [finalclass |-> <<"UserRequest", "Incident", "NormalChange">>,
     status |-> <<"closed">>,
     start_date |-> <<2>>,
     tto_100_passed |-> <<0, 1>>,
     ttr_100_passed |-> <<0>>,
     service_id |-> <<"s1">>,
     servicesubcategory_id |-> <<NULL>>,
     team_id |-> <<"t1">>,
     agent_id |-> <<"p1">>,
     tto_started |-> <<172800>>,
     tto_stopped |-> <<172860, 172980>>,
     ttr_stopped |-> <<173100, 173400>>,
     end_date |-> <<NULLNUM, 174000>>]

\* value lists: KPI tables, several sub-services and months
Kpi3Dom ==
    [finalclass |-> <<"UserRequest">>,
     status |-> <<"assigned", "closed">>,
     start_date |-> <<2, 3>>,
     tto_100_passed |-> <<0>>,
     ttr_100_passed |-> <<0>>,
     service_id |-> <<"s1", "s3">>,
     servicesubcategory_id |-> <<NULL, "c1", "c2">>,
     team_id |-> <<"t1">>,
     agent_id |-> <<"p1">>]


----------------------------------------------------------------------------
(* 1. get_ticket_summary *)

\* WHERE clause of get_ticket_summary
SummaryRows(d, s, e) ==
    {i \in DOMAIN d :
        /\ d[i].finalclass # "Problem"
        /\ InPeriod(d[i], s, e)
        /\ \/ SqlNe(tr_status(d[i]), "new")
           \/ SqlNe(ti_status(d[i]), "new")
           \/ SqlNe(c_status(d[i]), "new")}

\* SUM(CASE WHEN cond THEN 1 ELSE 0 END) over the rows R: NULL when R is empty
SumCase(R, hits) == IF R = {} THEN NULLNUM ELSE Cardinality(hits)

get_ticket_summary(d, s, e) ==
    LET R == SummaryRows(d, s, e)
    IN  <<[total |-> Cardinality(R),
           request_total |-> SumCase(R, {i \in R : d[i].finalclass = "UserRequest"}),
           change_total |-> SumCase(R, {i \in R : d[i].finalclass \in ChangeClasses}),
           Incident_total |-> SumCase(R, {i \in R : d[i].finalclass = "Incident"})]>>

----------------------------------------------------------------------------
(* 2-4. get_user_request_stats, get_incident_stats, get_change_stats *)

\* mutant: the resolved bucket without 'closed'
InResolvedBucket_OnlyResolved(st) == SqlIn(st, {"resolved"})

\* status in ('closed','resolved')
InResolvedBucket(st) == SqlIn(st, {"closed", "resolved"})

\* status = 'closed'
InClosedBucket(st) == st # NULL /\ st = "closed"

\* status not in ('closed','resolved')
NotInResolvedBucket(st) == SqlNotIn(st, {"closed", "resolved"})

\* the SELECT list shared by the three status queries, over the rows R
StatusRow(d, R) ==
    <<[total |-> Cardinality(R),
       resolved_total |-> SumCase(R, {i \in R : InResolvedBucket(d[i].status)}),
       closed_total |-> SumCase(R, {i \in R : InClosedBucket(d[i].status)}),
       unresolved_total |-> SumCase(R, {i \in R : NotInResolvedBucket(d[i].status)})]>>

\* FROM ticket_request tr LEFT JOIN ticket t WHERE ... AND tr.status <> 'new'
UserRequestRows(d, s, e) ==
    {i \in DOMAIN d : /\ d[i].finalclass = "UserRequest"
                      /\ InPeriod(d[i], s, e)
                      /\ SqlNe(d[i].status, "new")}

\* FROM ticket_incident ti LEFT JOIN ticket t WHERE ... AND ti.status <> 'new'
IncidentRows(d, s, e) ==
    {i \in DOMAIN d : /\ d[i].finalclass = "Incident"
                      /\ InPeriod(d[i], s, e)
                      /\ SqlNe(d[i].status, "new")}

\* FROM `change` c LEFT JOIN ticket t WHERE ... AND c.status <> 'new'
ChangeRows(d, s, e) ==
    {i \in DOMAIN d : /\ d[i].finalclass \in ChangeClasses
                      /\ InPeriod(d[i], s, e)
                      /\ SqlNe(d[i].status, "new")}

get_user_request_stats(d, s, e) == StatusRow(d, UserRequestRows(d, s, e))

get_incident_stats(d, s, e) == StatusRow(d, IncidentRows(d, s, e))

get_change_stats(d, s, e) == StatusRow(d, ChangeRows(d, s, e))

----------------------------------------------------------------------------
(* 5-6. get_team_stats, get_person_stats *)

\* TIMESTAMPDIFF(SECOND, a, b): NULL if a or b is NULL
TIMESTAMPDIFF(a, b) == IF a = NULLNUM \/ b = NULLNUM THEN NULLNUM ELSE b - a

\* a DATETIME start_date in seconds
Seconds(day) == day * 86400

\* response_time of a request or incident: TIMESTAMPDIFF(SECOND, tto_started, tto_stopped)
ResponseTime(t) ==
    TIMESTAMPDIFF(Timestamp(t, "tto_started"), Timestamp(t, "tto_stopped"))

\* resolution_time of a request or incident, measured from the start of the response
ResolutionTime_FromStart(t) ==
    TIMESTAMPDIFF(Timestamp(t, "tto_started"), Timestamp(t, "ttr_stopped"))

\* resolution_time of a request or incident: TIMESTAMPDIFF(SECOND, tto_stopped, ttr_stopped)
ResolutionTime(t) ==
    TIMESTAMPDIFF(Timestamp(t, "tto_stopped"), Timestamp(t, "ttr_stopped"))

\* the three branches of the UNION ALL subquery; the change branch selects
\* the constants 0 for both breach flags and NULL for response_time
TimeSubquery(d, s, e) ==
    {[id |-> i, team_id |-> d[i].team_id, agent_id |-> d[i].agent_id,
      start_date |-> d[i].start_date, ticket_type |-> "request",
      status |-> d[i].status,
      tto_100_passed |-> d[i].tto_100_passed,
      ttr_100_passed |-> d[i].ttr_100_passed,
      response_time |-> ResponseTime(d[i]),
      resolution_time |-> ResolutionTime(d[i])] : i \in UserRequestRows(d, s, e)}
    \cup
    {[id |-> i, team_id |-> d[i].team_id, agent_id |-> d[i].agent_id,
      start_date |-> d[i].start_date, ticket_type |-> "incident",
      status |-> d[i].status,
      tto_100_passed |-> d[i].tto_100_passed,
      ttr_100_passed |-> d[i].ttr_100_passed,
      response_time |-> ResponseTime(d[i]),
      resolution_time |-> ResolutionTime(d[i])] : i \in IncidentRows(d, s, e)}
    \cup
    {[id |-> i, team_id |-> d[i].team_id, agent_id |-> d[i].agent_id,
      start_date |-> d[i].start_date, ticket_type |-> "change",
      status |-> d[i].status,
      tto_100_passed |-> 0,
      ttr_100_passed |-> 0,
      response_time |-> NULLNUM,
      resolution_time |->
          TIMESTAMPDIFF(Seconds(d[i].start_date), Timestamp(d[i], "end_date"))]
        : i \in ChangeRows(d, s, e)}

\* ROUND(AVG(x) / 60, 2) over the rows of G whose x is not NULL, in
\* hundredths of a minute; NULL if there is none
AvgMinutes(G, x) ==
    LET V == {r \in G : r[x] # NULLNUM}
    IN  IF V = {} THEN NULLNUM
        ELSE RoundDiv(SumOver(V, [r \in V |-> r[x]]) * 100, Cardinality(V) * 60)

\* ROUND(MAX(x) / 60, 2), likewise
MaxMinutes(G, x) ==
    LET V == {r \in G : r[x] # NULLNUM}
    IN  IF V = {} THEN NULLNUM
        ELSE RoundDiv((CHOOSE m \in {r[x] : r \in V} : \A r \in V : r[x] <= m) * 100, 60)

\* CASE WHEN ticket_type = '变更' THEN 'N/A' ELSE ROUND(.. / 60, 2) END
ResponseCell(type, minutes) ==
    IF type = "change" THEN [text |-> "N/A", num |-> NULLNUM]
    ELSE [text |-> "number", num |-> minutes]

\* the unresolved bucket with the tickets in intake
InUnresolvedBucket_WithNew(st) == SqlNotIn(st, {"closed", "resolved"})

\* status NOT IN ('closed', 'new', 'resolved')
InUnresolvedBucket(st) == SqlNotIn(st, {"closed", "new", "resolved"})

\* mutant: both flags required
IsOverdue_And(r) == r.tto_100_passed = 1 /\ r.ttr_100_passed = 1

\* (tto_100_passed = 1 OR ttr_100_passed = 1)
IsOverdue(r) == r.tto_100_passed = 1 \/ r.ttr_100_passed = 1

\* the SELECT list of both time queries over one group G of subquery rows
\* (count, resolved = '已解决', unresolved = '未解决', overdue = '超时工单',
\*  resolution_rate = '工单解决率', timeliness_rate = '工单及时率',
\*  avg_response = '平均响应时长(分钟)', avg_resolution = '平均解决时长(分钟)',
\*  max_response = '最大响应时长(分钟)', max_resolution = '最大解决时长(分钟)')
TimeGroupRow(month, name, type, G) ==
    LET cnt == Cardinality(G)
        unres == Cardinality({r \in G : InUnresolvedBucket(r.status)})
        over == Cardinality({r \in G : IsOverdue(r)})
    IN  [month |-> month, name |-> name, ticket_type |-> type,
         count |-> cnt,
         resolved |-> Cardinality({r \in G : InResolvedBucket(r.status)}),
         unresolved |-> unres,
         overdue |-> over,
         resolution_rate |-> RateMulFirst(cnt - unres, cnt),
         timeliness_rate |-> RateMulFirst(cnt - over, cnt),
         avg_response |-> ResponseCell(type, AvgMinutes(G, "response_time")),
         avg_resolution |-> AvgMinutes(G, "resolution_time"),
         max_response |-> ResponseCell(type, MaxMinutes(G, "response_time")),
         max_resolution |-> MaxMinutes(G, "resolution_time")]

\* JOIN contact c ON subquery.team_id = c.id WHERE c.finalclass = 'Team'
TeamJoin(d, s, e) ==
    {r \in TimeSubquery(d, s, e) :
        r.team_id \in DOMAIN contact /\ contact[r.team_id].finalclass = "Team"}

\* GROUP BY month, c.name, ticket_type HAVING COUNT(*) > 0
get_team_stats(d, s, e) ==
    LET J == TeamJoin(d, s, e)
        key(r) == <<DATE_FORMAT(r.start_date), contact[r.team_id].name, r.ticket_type>>
    IN  {row \in {TimeGroupRow(k[1], k[2], k[3], {r \in J : key(r) = k}) :
                     k \in {key(r) : r \in J}} : row.count > 0}

\* agent_info: person p1 JOIN contact c1, agent_name = CONCAT(name, ' ', first_name)
agent_info == [id \in (DOMAIN person) \cap (DOMAIN contact) |->
                 <<contact[id].name, person[id].first_name>>]

\* JOIN agent_info ai ON subquery.agent_id = ai.id
PersonJoin(d, s, e) == {r \in TimeSubquery(d, s, e) : r.agent_id \in DOMAIN agent_info}

\* GROUP BY ai.agent_name, ticket_type, month
get_person_stats(d, s, e) ==
    LET J == PersonJoin(d, s, e)
        key(r) == <<DATE_FORMAT(r.start_date), agent_info[r.agent_id], r.ticket_type>>
    IN  {TimeGroupRow(k[1], k[2], k[3], {r \in J : key(r) = k}) : k \in {key(r) : r \in J}}

----------------------------------------------------------------------------
(* 7. get_unresolved_tickets *)

\* WHERE clause of get_unresolved_tickets
UnresolvedRows(d, s, e) ==
    {i \in DOMAIN d :
        /\ \/ InUnresolvedBucket(tr_status(d[i]))
           \/ InUnresolvedBucket(ti_status(d[i]))
           \/ InUnresolvedBucket(c_status(d[i]))
        /\ InPeriod(d[i], s, e)}

\* one row per selected ticket (ref = '工单号', status = '状态', team = '团队名称')
get_unresolved_tickets(d, s, e) ==
    {[ref |-> i,
      status |-> COALESCE(tr_status(d[i]), COALESCE(ti_status(d[i]), c_status(d[i]))),
      team |-> IF d[i].team_id \in DOMAIN contact THEN contact[d[i].team_id].name ELSE NULL]
        : i \in UnresolvedRows(d, s, e)}

----------------------------------------------------------------------------
(* 8. get_overdue_tickets *)

\* WHERE clause of get_overdue_tickets: the flags are read from the joined
\* ticket_request row, so they are NULL for a ticket that is not a request
OverdueRows(d, s, e) ==
    {i \in DOMAIN d :
        /\ d[i].finalclass # "Problem"
        /\ (tr_flag(d[i], "tto_100_passed") = 1 \/ tr_flag(d[i], "ttr_100_passed") = 1)
        /\ InPeriod(d[i], s, e)}

\* GROUP BY tr.status: one row per status; the columns that are neither
\* grouped nor aggregated come from one ticket of the group, which the
\* server is free to choose (rep).  The set of all tables the query can return.
get_overdue_tickets(d, s, e) ==
    LET R == OverdueRows(d, s, e)
        groups == {{i \in R : d[i].status = st} : st \in {d[i].status : i \in R}}
        reps == {f \in [groups -> R] : \A g \in groups : f[g] \in g}
    IN  {{[status |-> d[f[g]].status, ref |-> f[g]] : g \in groups} : f \in reps}


----------------------------------------------------------------------------
(* 9. get_infra_kpi_stats, get_app_kpi_stats *)

\* the UNION ALL subquery of requests and incidents (both passes)
KpiSubquery(d, s, e) ==
    {i \in DOMAIN d : /\ d[i].finalclass \in {"UserRequest", "Incident"}
                      /\ d[i].finalclass # "Problem"
                      /\ InPeriod(d[i], s, e)
                      /\ SqlNe(d[i].status, "new")}

\* mutant: the Infra filter is missing
InfraWhere_NoFilter(t) == TRUE

\* WHERE s.name <> '应用'
InfraWhere(t) == SqlNe(s_name(t), "App")

\* WHERE s.name = '应用'
AppWhere(t) == s_name(t) # NULL /\ s_name(t) = "App"

InfraRows(d, s, e) == {i \in KpiSubquery(d, s, e) : InfraWhere(d[i])}

AppRows(d, s, e) == {i \in KpiSubquery(d, s, e) : AppWhere(d[i])}

\* mutant: the discovery pass names a ticket by its sub-service first
InfraServiceOf_SubFirst(t) == COALESCE(s2_name(t), COALESCE(s_name(t), "Unclassified"))

\* discovery pass of get_infra_kpi_stats: COALESCE(s.name, COALESCE(s2.name, '未分类'))
InfraServiceOf(t) == COALESCE(s_name(t), COALESCE(s2_name(t), "Unclassified"))

\* discovery pass of get_app_kpi_stats: COALESCE(s2.name, COALESCE(s.name, '未分类'))
AppServiceOf(t) == COALESCE(s2_name(t), COALESCE(s_name(t), "Unclassified"))

\* pivot pass of both functions: COALESCE(s2.name, COALESCE(s.name, '未分类'))
PivotServiceOf(t) == COALESCE(s2_name(t), COALESCE(s_name(t), "Unclassified"))

\* the for loop over the discovered services: one generated column per
\* service other than '未分类'; the query text adds the '未分类' column
PivotColumns(services) == (services \ {"Unclassified"}) \cup {"Unclassified"}

\* mutant: the resolution-SLA flag is not read
KpiNotResolved_NoSla(t) == InUnresolvedBucket(t.status)

\* status NOT IN ('closed', 'new', 'resolved') OR ttr_100_passed = 1
KpiNotResolved(t) == InUnresolvedBucket(t.status) \/ t.ttr_100_passed = 1

\* WITH tmp_info: GROUP BY month, s.name, s2.name
tmp_info(d, R) ==
    LET key(i) == <<DATE_FORMAT(d[i].start_date), s_name(d[i]), s2_name(d[i])>>
    IN  {LET G == {i \in R : key(i) = k}
             total == Cardinality(G)
             resolved == total - Cardinality({i \in G : KpiNotResolved(d[i])})
         IN  [key |-> k,
              ticket_month |-> k[1],
              service_name |-> COALESCE(k[3], COALESCE(k[2], "Unclassified")),
              total |-> total,
              resolved |-> resolved,
              ticket_resolution_rate |-> RateDivFirst(resolved, total)]
         : k \in {key(i) : i \in R}}

\* CASE WHEN service_name = '<column>' THEN ticket_resolution_rate ELSE null END,
\* for every column
PivotCells(cols, name, rate) == [n \in cols |-> IF name = n THEN rate ELSE NULLNUM]

\* first branch of the UNION: GROUP BY ticket_month, service_name; the rate
\* is not grouped, it comes from the row rep[g] of the group
MonthBranch(info, cols, rep) ==
    LET groups == {{r \in info : r.ticket_month = k[1] /\ r.service_name = k[2]} :
                      k \in {<<r.ticket_month, r.service_name>> : r \in info}}
    IN  {[ticket_month |-> rep[g].ticket_month,
          cells |-> PivotCells(cols, rep[g].service_name, rep[g].ticket_resolution_rate),
          total |-> SumOver(g, [r \in g |-> r.total]),
          resolved |-> SumOver(g, [r \in g |-> r.resolved])] : g \in groups}

\* the choices of rep the server can make
MonthBranchReps(info) ==
    LET groups == {{r \in info : r.ticket_month = k[1] /\ r.service_name = k[2]} :
                      k \in {<<r.ticket_month, r.service_name>> : r \in info}}
    IN  {f \in [groups -> info] : \A g \in groups : f[g] \in g}

\* derived table tmp1: GROUP BY service_name
tmp1(info) ==
    {LET g == {r \in info : r.service_name = n}
         total == SumOver(g, [r \in g |-> r.total])
         resolved == SumOver(g, [r \in g |-> r.resolved])
     IN  [service_name |-> n,
          ticket_resolution_rate |-> RateDivFirst(resolved, total),
          total |-> total,
          resolved |-> resolved] : n \in {r.service_name : r \in info}}

\* second branch of the UNION: '总计' rows, one per service_name of tmp1
TotalBranch(info, cols) ==
    {[ticket_month |-> "Total",
      cells |-> PivotCells(cols, r.service_name, r.ticket_resolution_rate),
      total |-> r.total,
      resolved |-> r.resolved] : r \in tmp1(info)}

\* UNION (distinct): equal rows of the two branches collapse into one
KpiUnion(info, cols, rep) == MonthBranch(info, cols, rep) \cup TotalBranch(info, cols)

\* CONCAT(ROUND(x, 2), '%'): a percentage printed with two decimals
PctString(h) == [num |-> h, decimals |-> 2]

\* CONCAT(AVG(tmp.`<column>`), '%'): the strings 'nn.nn%' are read back as
\* numbers, averaged over the non-NULL ones (a month has at most one row that
\* carries a value in a given column) and printed as a double, that is
\* without trailing zeros; NULL if there is none.
AvgString(vals, f) ==
    IF vals = {} THEN [num |-> NULLNUM, decimals |-> 0]
    ELSE LET a == RoundDiv(SumOver(vals, f), Cardinality(vals))
         IN  [num |-> a,
              decimals |-> IF a % 100 = 0 THEN 0 ELSE IF a % 10 = 0 THEN 1 ELSE 2]

\* outer SELECT ... FROM tmp GROUP BY tmp.ticket_month
KpiTable(info, cols, rep) ==
    LET tmp == KpiUnion(info, cols, rep)
    IN  [columns |-> cols,
         rows |->
           {LET g == {r \in tmp : r.ticket_month = m}
                total == SumOver(g, [r \in g |-> r.total])
                resolved == SumOver(g, [r \in g |-> r.resolved])
            IN  [month |-> m,
                 cells |-> [n \in cols |->
                              LET v == {r \in g : r.cells[n] # NULLNUM}
                              IN  AvgString(v, [r \in v |-> r.cells[n]])],
                 kpi_total |-> PctString(RateDivFirst(resolved, total)),
                 total_count |-> total,
                 resolved_count |-> resolved] : m \in {r.ticket_month : r \in tmp}}]

\* the set of tables get_infra_kpi_stats can return
get_infra_kpi_stats(d, s, e) ==
    LET R == InfraRows(d, s, e)
        cols == PivotColumns({InfraServiceOf(d[i]) : i \in R})
        info == tmp_info(d, R)
    IN  {KpiTable(info, cols, rep) : rep \in MonthBranchReps(info)}

\* the set of tables get_app_kpi_stats can return
get_app_kpi_stats(d, s, e) ==
    LET R == AppRows(d, s, e)
        cols == PivotColumns({AppServiceOf(d[i]) : i \in R})
        info == tmp_info(d, R)
    IN  {KpiTable(info, cols, rep) : rep \in MonthBranchReps(info)}

----------------------------------------------------------------------------
(* The two views of the report: the interactive view written by main()     *)
(* (src/itop_report.py:843-994) and the document built by generate_pdf()   *)
(* (src/pdf_generator.py:212-434)                                          *)

\* x / y * 100 printed with f"{...:.2f}%", in hundredths of a percent
Percentage(x, y) == RoundDiv(x * 10000, y)

\* a percentage of a narrative as it is shown: digits ("value") or a marker
Shown(h) == [shown |-> "value", num |-> h]

\* the figures of a section that has no narrative
NoFigures ==
    [total |-> NULLNUM, resolved |-> NULLNUM, closed |-> NULLNUM, unresolved |-> NULLNUM,
     resolved_percentage |-> Shown(NULLNUM), closed_percentage |-> Shown(NULLNUM),
     unresolved_percentage |-> Shown(NULLNUM)]

\* one section of a view: its text ("narrative", "no_activity", "no_data" or
\* "none"), the figures of the narrative, the rows of its table and its chart
\* ("pie", "line" or "none")
Section(text, figures, table, chart) ==
    [text |-> text, figures |-> figures, table |-> table, chart |-> chart]

\* the narrative of sections 1) and 2): requests and incidents
StatusFigures(total, resolved, closed, unresolved) ==
    [total |-> total, resolved |-> resolved, closed |-> closed, unresolved |-> unresolved,
     resolved_percentage |->
        Shown(IF total > 0 THEN Percentage(resolved, total) ELSE 0),
     closed_percentage |->
        Shown(IF resolved > 0 THEN Percentage(closed, resolved) ELSE 0),
     unresolved_percentage |->
        Shown(IF total > 0 THEN Percentage(unresolved, total) ELSE 0)]

\* the narrative of section 3): changes
ChangeFigures(total, resolved, closed) ==
    [total |-> total, resolved |-> resolved, closed |-> closed, unresolved |-> NULLNUM,
     resolved_percentage |->
        Shown(IF closed > 0 THEN Percentage(resolved, closed) ELSE 0),
     closed_percentage |->
        Shown(IF total > 0 THEN Percentage(closed, total) ELSE 0),
     unresolved_percentage |-> Shown(NULLNUM)]

\* main(): sections 1) and 2)
ViewStatusSection(stats) ==
    IF stats = <<>> THEN Section("no_data", NoFigures, {}, "none")
    ELSE IF stats[1].total > 0
         THEN Section("narrative",
                      StatusFigures(stats[1].total, stats[1].resolved_total,
                                    stats[1].closed_total, stats[1].unresolved_total),
                      {}, "pie")
         ELSE Section("no_activity", NoFigures, {}, "none")

\* main(): section 3)
ViewChangeSection(stats) ==
    IF stats = <<>> THEN Section("no_data", NoFigures, {}, "none")
    ELSE IF stats[1].total > 0
         THEN Section("narrative",
                      ChangeFigures(stats[1].total, stats[1].resolved_total,
                                    stats[1].closed_total),
                      {}, "pie")
         ELSE Section("no_activity", NoFigures, {}, "none")

\* a rate cell of a table as it is shown: 'nn.nn%' as the query wrote it
\* ("percent"), or the float that replaced it ("float")
RateCell(h, isfloat) == [num |-> h, form |-> IF isfloat THEN "float" ELSE "percent"]

\* the rows of team_stats / person_stats as a table shows them
TimeTable(rows, isfloat) ==
    {[month |-> r.month, name |-> r.name, ticket_type |-> r.ticket_type,
      count |-> r.count, resolved |-> r.resolved, unresolved |-> r.unresolved,
      overdue |-> r.overdue,
      resolution_rate |-> RateCell(r.resolution_rate, isfloat),
      timeliness_rate |-> RateCell(r.timeliness_rate, FALSE)] : r \in rows}

\* the rows of a KPI table as a table shows them
KpiShown(kpi, isfloat) ==
    {[month |-> r.month, cells |-> r.cells,
      kpi_total |-> RateCell(r.kpi_total.num, isfloat),
      total_count |-> r.total_count, resolved_count |-> r.resolved_count]
        : r \in kpi.rows}

\* df = pd.DataFrame(frame); df[column] = ...float...: the frames whose
\* column the assignment overwrites.  DataFrame(frame) shares the columns of
\* frame in pandas before 2.0 and copies them from 2.0 on.
Overwritten(frame, shares) == IF shares THEN {frame} ELSE {}

\* main(): section 2, the dataframe and the chart drawn if the table spans
\* more than one month
ViewTeamSection(team, fl) ==
    Section("none", NoFigures, TimeTable(team, "team_stats" \in fl),
            IF Cardinality({r.month : r \in team}) > 1 THEN "line" ELSE "none")

\* main(): sections 3, 4 and 5 are st.dataframe(...) alone
ViewPersonSection(rows) == Section("none", NoFigures, TimeTable(rows, FALSE), "none")

ViewListSection(rows) == Section("none", NoFigures, rows, "none")

\* main(): sections 6 and 7, the dataframe and the chart
ViewKpiSection(kpi, isfloat) ==
    Section("none", NoFigures, KpiShown(kpi, isfloat), "line")

\* total_tickets = ticket_summary['total'].iloc[0] if not ticket_summary.empty else 0
TotalTickets(summary) == IF summary = <<>> THEN 0 ELSE summary[1].total

\* the main content area
InteractiveView(summary, requests, incidents, changes, team, persons, unresolved, overdue, infra, app, fl) ==
    [total_tickets |-> TotalTickets(summary),
     requests |-> ViewStatusSection(requests),
     incidents |-> ViewStatusSection(incidents),
     changes |-> ViewChangeSection(changes),
     team |-> ViewTeamSection(team, fl),
     persons |-> ViewPersonSection(persons),
     unresolved |-> ViewListSection(unresolved),
     overdue |-> ViewListSection(overdue),
     infra |-> ViewKpiSection(infra, "infra_kpi_stats" \in fl),
     app |-> ViewKpiSection(app, "app_kpi_stats" \in fl)]

\* main(): df = pd.DataFrame(team_stats); df['工单解决率'] = ...
ViewOverwrites(team, shares) == Overwritten("team_stats", shares)

\* _add_service_request_stats: sections 1) and 2)
PdfStatusSection(stats) ==
    IF stats = <<>> THEN Section("no_data", NoFigures, {}, "none")
    ELSE IF stats[1].total > 0
         THEN Section("narrative",
                      StatusFigures(stats[1].total, stats[1].resolved_total,
                                    stats[1].closed_total, stats[1].unresolved_total),
                      {}, "pie")
         ELSE Section("no_activity", NoFigures, {}, "none")

\* _add_service_request_stats: section 3)
PdfChangeSection(stats) ==
    IF stats = <<>> THEN Section("no_data", NoFigures, {}, "none")
    ELSE IF stats[1].total > 0
         THEN Section("narrative",
                      ChangeFigures(stats[1].total, stats[1].resolved_total,
                                    stats[1].closed_total),
                      {}, "pie")
         ELSE Section("no_activity", NoFigures, {}, "none")

\* _add_team_stats: the table is built before the column is overwritten
add_team_stats(team, fl) ==
    IF team # {}
    THEN Section("none", NoFigures, TimeTable(team, "team_stats" \in fl), "line")
    ELSE Section("no_activity", NoFigures, {}, "none")

\* generate_pdf: a data table, or a sentence if the frame is empty
PdfPersonSection(rows) ==
    IF rows # {}
    THEN Section("none", NoFigures, TimeTable(rows, FALSE), "none")
    ELSE Section("no_activity", NoFigures, {}, "none")

PdfListSection(rows) ==
    IF rows # {}
    THEN Section("none", NoFigures, rows, "none")
    ELSE Section("no_activity", NoFigures, {}, "none")

\* _add_kpi_stats: the table is built before the column is overwritten
add_kpi_stats(kpi, isfloat) ==
    IF kpi.rows # {}
    THEN Section("none", NoFigures, KpiShown(kpi, isfloat), "line")
    ELSE Section("no_activity", NoFigures, {}, "none")

\* the elements of the document
generate_pdf(summary, requests, incidents, changes, team, persons, unresolved, overdue, infra, app, fl) ==
    [total_tickets |-> TotalTickets(summary),
     requests |-> PdfStatusSection(requests),
     incidents |-> PdfStatusSection(incidents),
     changes |-> PdfChangeSection(changes),
     team |-> add_team_stats(team, fl),
     persons |-> PdfPersonSection(persons),
     unresolved |-> PdfListSection(unresolved),
     overdue |-> PdfListSection(overdue),
     infra |-> add_kpi_stats(infra, "infra_kpi_stats" \in fl),
     app |-> add_kpi_stats(app, "app_kpi_stats" \in fl)]

\* the frames generate_pdf overwrites: those of the non-empty frames it
\* charts, when DataFrame(frame) shares their columns
PdfOverwrites(team, infra, app, shares) ==
    (IF team # {} THEN Overwritten("team_stats", shares) ELSE {})
    \cup (IF infra.rows # {} THEN Overwritten("infra_kpi_stats", shares) ELSE {})
    \cup (IF app.rows # {} THEN Overwritten("app_kpi_stats", shares) ELSE {})

\* the rollup functions generate_pdf calls: it takes the ten tables and no
\* database engine
PdfQueries_Requery == {"get_team_stats"}

PdfQueries == {}

----------------------------------------------------------------------------
(* main(): the data block, the export and the rendering,                   *)
(* src/itop_report.py:776-994                                              *)

\* a rollup variable before its query has run
NotFetched == <<>>

\* the ten rollup functions
RollupFunctions ==
    {"get_ticket_summary", "get_user_request_stats", "get_incident_stats",
     "get_change_stats", "get_team_stats", "get_person_stats",
     "get_unresolved_tickets", "get_overdue_tickets",
     "get_infra_kpi_stats", "get_app_kpi_stats"}

\* the order of the ten calls, then the export block and the rendering
CallOrder == <<"get_ticket_summary", "get_user_request_stats", "get_incident_stats",
               "get_change_stats", "get_team_stats", "get_person_stats",
               "get_unresolved_tickets", "get_overdue_tickets",
               "get_infra_kpi_stats", "get_app_kpi_stats", "export", "render", "done">>

\* the place of a call in main()
Position == [p \in {CallOrder[k] : k \in 1..Len(CallOrder)} |->
               CHOOSE k \in 1..Len(CallOrder) : CallOrder[k] = p]

\* the call after p
NextCall(p) == CallOrder[Position[p] + 1]

\* the call p has returned (and main() has not been left by an exception)
Fetched(p) == pc # "failed" /\ Position[pc] > Position[p]

\* pdfmetrics.registerFont(TTFont('SimKai', font_path)) runs when
\* itop_report.py imports pdf_generator: it raises if the font file is missing
FontRegistered(fault) == fault # "font"

\* doc.build(elements) succeeded (generate_pdf returns the bytes, not None)
DocumentBuilt(fault) == fault # "build"

\* st.error(f"生成PDF时发生错误: ..."), st.error("请检查是否安装了所需的中文字体。")
ExportErrors == {"pdf_error", "font_hint"}

\* an invocation without export in which every query succeeds
Plain == [button |-> FALSE, shares |-> FALSE, outage |-> "none", fault |-> "none"]

\* what an invocation can find: the export button pressed or not, a pandas
\* in which DataFrame(frame) shares the columns of frame or copies them,
\* the data source failing at one of the queries or at none, and the font
\* file missing or the build of the document failing
Envs ==
    {[button |-> b, shares |-> sh, outage |-> "none", fault |-> "none"] :
        b \in BOOLEAN, sh \in BOOLEAN}
    \cup {[button |-> FALSE, shares |-> FALSE, outage |-> f, fault |-> "none"] :
             f \in RollupFunctions}
    \cup {[button |-> b, shares |-> FALSE, outage |-> "none", fault |-> x] :
             b \in BOOLEAN, x \in {"font", "build"}}

InitWith(tables, envs) ==
    /\ db \in tables
    /\ env \in envs
    /\ start_date = 1
    /\ end_date = 5
    /\ pc = IF FontRegistered(env.fault) THEN "get_ticket_summary" ELSE "failed"
    /\ ticket_summary = NotFetched
    /\ user_request_stats = NotFetched
    /\ incident_stats = NotFetched
    /\ change_stats = NotFetched
    /\ team_stats = NotFetched
    /\ person_stats = NotFetched
    /\ unresolved_tickets = NotFetched
    /\ overdue_tickets = NotFetched
    /\ infra_kpi_stats = NotFetched
    /\ app_kpi_stats = NotFetched
    /\ calls = [f \in RollupFunctions |-> 0]
    /\ floated = {}
    /\ pdf = <<>>
    /\ view = <<>>
    /\ errors = {}

Init == InitWith(Tables(StatusDom, MaxTickets), {Plain})

\* execute_query raises (pd.read_sql fails): nothing catches the exception
\* in main(), its local tables are gone and nothing more is rendered
Raised ==
    /\ pc' = "failed"
    /\ ticket_summary' = NotFetched
    /\ user_request_stats' = NotFetched
    /\ incident_stats' = NotFetched
    /\ change_stats' = NotFetched
    /\ team_stats' = NotFetched
    /\ person_stats' = NotFetched
    /\ unresolved_tickets' = NotFetched
    /\ overdue_tickets' = NotFetched
    /\ infra_kpi_stats' = NotFetched
    /\ app_kpi_stats' = NotFetched

Call_get_ticket_summary ==
    /\ pc = "get_ticket_summary"
    /\ calls' = [calls EXCEPT !["get_ticket_summary"] = @ + 1]
    /\ IF env.outage = "get_ticket_summary"
       THEN Raised
       ELSE /\ ticket_summary' = get_ticket_summary(db, start_date, end_date)
            /\ pc' = NextCall(pc)
            /\ UNCHANGED <<user_request_stats, incident_stats, change_stats,
                            team_stats, person_stats, unresolved_tickets,
                            overdue_tickets, infra_kpi_stats, app_kpi_stats>>
    /\ UNCHANGED <<db, start_date, end_date, env, floated, pdf, view, errors>>

Call_get_user_request_stats ==
    /\ pc = "get_user_request_stats"
    /\ calls' = [calls EXCEPT !["get_user_request_stats"] = @ + 1]
    /\ IF env.outage = "get_user_request_stats"
       THEN Raised
       ELSE /\ user_request_stats' = get_user_request_stats(db, start_date, end_date)
            /\ pc' = NextCall(pc)
            /\ UNCHANGED <<ticket_summary, incident_stats, change_stats,
                            team_stats, person_stats, unresolved_tickets,
                            overdue_tickets, infra_kpi_stats, app_kpi_stats>>
    /\ UNCHANGED <<db, start_date, end_date, env, floated, pdf, view, errors>>

Call_get_incident_stats ==
    /\ pc = "get_incident_stats"
    /\ calls' = [calls EXCEPT !["get_incident_stats"] = @ + 1]
    /\ IF env.outage = "get_incident_stats"
       THEN Raised
       ELSE /\ incident_stats' = get_incident_stats(db, start_date, end_date)
            /\ pc' = NextCall(pc)
            /\ UNCHANGED <<ticket_summary, user_request_stats, change_stats,
                            team_stats, person_stats, unresolved_tickets,
                            overdue_tickets, infra_kpi_stats, app_kpi_stats>>
    /\ UNCHANGED <<db, start_date, end_date, env, floated, pdf, view, errors>>

Call_get_change_stats ==
    /\ pc = "get_change_stats"
    /\ calls' = [calls EXCEPT !["get_change_stats"] = @ + 1]
    /\ IF env.outage = "get_change_stats"
       THEN Raised
       ELSE /\ change_stats' = get_change_stats(db, start_date, end_date)
            /\ pc' = NextCall(pc)
            /\ UNCHANGED <<ticket_summary, user_request_stats, incident_stats,
                            team_stats, person_stats, unresolved_tickets,
                            overdue_tickets, infra_kpi_stats, app_kpi_stats>>
    /\ UNCHANGED <<db, start_date, end_date, env, floated, pdf, view, errors>>

Call_get_team_stats ==
    /\ pc = "get_team_stats"
    /\ calls' = [calls EXCEPT !["get_team_stats"] = @ + 1]
    /\ IF env.outage = "get_team_stats"
       THEN Raised
       ELSE /\ team_stats' = get_team_stats(db, start_date, end_date)
            /\ pc' = NextCall(pc)
            /\ UNCHANGED <<ticket_summary, user_request_stats, incident_stats,
                            change_stats, person_stats, unresolved_tickets,
                            overdue_tickets, infra_kpi_stats, app_kpi_stats>>
    /\ UNCHANGED <<db, start_date, end_date, env, floated, pdf, view, errors>>

Call_get_person_stats ==
    /\ pc = "get_person_stats"
    /\ calls' = [calls EXCEPT !["get_person_stats"] = @ + 1]
    /\ IF env.outage = "get_person_stats"
       THEN Raised
       ELSE /\ person_stats' = get_person_stats(db, start_date, end_date)
            /\ pc' = NextCall(pc)
            /\ UNCHANGED <<ticket_summary, user_request_stats, incident_stats,
                            change_stats, team_stats, unresolved_tickets,
                            overdue_tickets, infra_kpi_stats, app_kpi_stats>>
    /\ UNCHANGED <<db, start_date, end_date, env, floated, pdf, view, errors>>

Call_get_unresolved_tickets ==
    /\ pc = "get_unresolved_tickets"
    /\ calls' = [calls EXCEPT !["get_unresolved_tickets"] = @ + 1]
    /\ IF env.outage = "get_unresolved_tickets"
       THEN Raised
       ELSE /\ unresolved_tickets' = get_unresolved_tickets(db, start_date, end_date)
            /\ pc' = NextCall(pc)
            /\ UNCHANGED <<ticket_summary, user_request_stats, incident_stats,
                            change_stats, team_stats, person_stats,
                            overdue_tickets, infra_kpi_stats, app_kpi_stats>>
    /\ UNCHANGED <<db, start_date, end_date, env, floated, pdf, view, errors>>

Call_get_overdue_tickets ==
    /\ pc = "get_overdue_tickets"
    /\ calls' = [calls EXCEPT !["get_overdue_tickets"] = @ + 1]
    /\ IF env.outage = "get_overdue_tickets"
       THEN Raised
       ELSE /\ overdue_tickets' \in get_overdue_tickets(db, start_date, end_date)
            /\ pc' = NextCall(pc)
            /\ UNCHANGED <<ticket_summary, user_request_stats, incident_stats,
                            change_stats, team_stats, person_stats,
                            unresolved_tickets, infra_kpi_stats, app_kpi_stats>>
    /\ UNCHANGED <<db, start_date, end_date, env, floated, pdf, view, errors>>

Call_get_infra_kpi_stats ==
    /\ pc = "get_infra_kpi_stats"
    /\ calls' = [calls EXCEPT !["get_infra_kpi_stats"] = @ + 1]
    /\ IF env.outage = "get_infra_kpi_stats"
       THEN Raised
       ELSE /\ infra_kpi_stats' \in get_infra_kpi_stats(db, start_date, end_date)
            /\ pc' = NextCall(pc)
            /\ UNCHANGED <<ticket_summary, user_request_stats, incident_stats,
                            change_stats, team_stats, person_stats,
                            unresolved_tickets, overdue_tickets, app_kpi_stats>>
    /\ UNCHANGED <<db, start_date, end_date, env, floated, pdf, view, errors>>

Call_get_app_kpi_stats ==
    /\ pc = "get_app_kpi_stats"
    /\ calls' = [calls EXCEPT !["get_app_kpi_stats"] = @ + 1]
    /\ IF env.outage = "get_app_kpi_stats"
       THEN Raised
       ELSE /\ app_kpi_stats' \in get_app_kpi_stats(db, start_date, end_date)
            /\ pc' = NextCall(pc)
            /\ UNCHANGED <<ticket_summary, user_request_stats, incident_stats,
                            change_stats, team_stats, person_stats,
                            unresolved_tickets, overdue_tickets,
                            infra_kpi_stats>>
    /\ UNCHANGED <<db, start_date, end_date, env, floated, pdf, view, errors>>

\* the export block: if st.button('导出PDF报表') then generate_pdf(...) and
\* st.download_button(data=pdf); generate_pdf returns None when the build of
\* the document fails, st.download_button does not take None and raises, and
\* the handler of the block shows the two messages
Export ==
    /\ pc = "export"
    /\ IF env.button
       THEN /\ pdf' = IF DocumentBuilt(env.fault)
                      THEN <<generate_pdf(ticket_summary, user_request_stats, incident_stats,
                                          change_stats, team_stats, person_stats,
                                          unresolved_tickets, overdue_tickets,
                                          infra_kpi_stats, app_kpi_stats, floated)>>
                      ELSE <<>>
            /\ errors' = IF DocumentBuilt(env.fault) THEN errors ELSE errors \cup ExportErrors
            /\ floated' = floated \cup PdfOverwrites(team_stats, infra_kpi_stats,
                                                     app_kpi_stats, env.shares)
            /\ calls' = [f \in RollupFunctions |->
                            calls[f] + (IF f \in PdfQueries THEN 1 ELSE 0)]
       ELSE UNCHANGED <<pdf, floated, calls, errors>>
    /\ pc' = "render"
    /\ UNCHANGED <<db, start_date, end_date, env, view>>
    /\ UNCHANGED results

\* the main content area: the interactive view
Render ==
    /\ pc = "render"
    /\ view' = <<InteractiveView(ticket_summary, user_request_stats, incident_stats,
                                  change_stats, team_stats, person_stats,
                                  unresolved_tickets, overdue_tickets,
                                  infra_kpi_stats, app_kpi_stats, floated)>>
    /\ floated' = floated \cup ViewOverwrites(team_stats, env.shares)
    /\ pc' = "done"
    /\ UNCHANGED <<db, start_date, end_date, env, calls, pdf, errors>>
    /\ UNCHANGED results

Next ==
    \/ Call_get_ticket_summary
    \/ Call_get_user_request_stats
    \/ Call_get_incident_stats
    \/ Call_get_change_stats
    \/ Call_get_team_stats
    \/ Call_get_person_stats
    \/ Call_get_unresolved_tickets
    \/ Call_get_overdue_tickets
    \/ Call_get_infra_kpi_stats
    \/ Call_get_app_kpi_stats
    \/ Export
    \/ Render

Spec == Init /\ [][Next]_vars

InitTeam == InitWith(Tables(TeamDom, MaxTickets), {Plain})

SpecTeam == InitTeam /\ [][Next]_vars

InitKpi == InitWith(Tables(KpiDom, MaxTickets), {Plain})

SpecKpi == InitKpi /\ [][Next]_vars

InitKpi3 == InitWith(Tables(Kpi3Dom, KpiTickets), {Plain})

SpecKpi3 == InitKpi3 /\ [][Next]_vars

InitPeriod == InitWith(Tables(PeriodDom, MaxTickets), {Plain})

SpecPeriod == InitPeriod /\ [][Next]_vars

InitView == InitWith(Tables(ViewDom, MaxTickets), Envs)

SpecView == InitView /\ [][Next]_vars

InitTime == InitWith(Tables(TimeDom, MaxTickets), {Plain})

SpecTime == InitTime /\ [][Next]_vars


----------------------------------------------------------------------------
(* Properties.  They are stated over the ticket table itself, not over the *)
(* operators above.                                                        *)

\* ticket i was started in the period and has left intake
Started(i) ==
    /\ db[i].start_date >= start_date
    /\ db[i].start_date < end_date
    /\ db[i].status # "new"

\* in-scope tickets of the classes cls
InScope(cls) == {i \in DOMAIN db : db[i].finalclass \in cls /\ Started(i)}

\* h is n / d as a percentage rounded to two decimals (in hundredths)
IsPercentage(h, n, d) ==
    /\ d > 0
    /\ 2 * (h * d - 10000 * n) <= d
    /\ 2 * (10000 * n - h * d) <= d

\* the row satisfies the bucket partition and the bucket inclusions
BucketsOk(row) ==
    /\ row.total = row.resolved_total + row.unresolved_total
    /\ row.closed_total <= row.resolved_total
    /\ row.resolved_total <= row.total

\* C1: every status breakdown of a period with an in-scope ticket of its
\* class has total = resolved_total + unresolved_total and
\* closed_total <= resolved_total <= total.
C1_BucketPartition ==
    /\ (Fetched("get_user_request_stats") /\ InScope({"UserRequest"}) # {})
          => BucketsOk(user_request_stats[1])
    /\ (Fetched("get_incident_stats") /\ InScope({"Incident"}) # {})
          => BucketsOk(incident_stats[1])
    /\ (Fetched("get_change_stats") /\ InScope(ChangeClasses) # {})
          => BucketsOk(change_stats[1])

\* C1 witness: a request breakdown with a closed and an unresolved request
C1_Witness ==
    /\ Fetched("get_change_stats")
    /\ user_request_stats[1].total = 2
    /\ user_request_stats[1].closed_total = 1
    /\ user_request_stats[1].unresolved_total = 1


\* the ticket type the time queries give to a ticket class
TypeOfClass(c) ==
    IF c = "UserRequest" THEN "request" ELSE IF c = "Incident" THEN "incident" ELSE "change"

AllClasses == {"UserRequest", "Incident"} \cup ChangeClasses

\* a breach flag of ticket i is set (changes carry no flags)
Breached(i) ==
    /\ db[i].finalclass \in {"UserRequest", "Incident"}
    /\ (db[i].tto_100_passed = 1 \/ db[i].ttr_100_passed = 1)

\* the in-scope tickets of a team-statistics group
TeamGroup(row) ==
    {i \in InScope(AllClasses) :
        /\ db[i].team_id \in DOMAIN contact
        /\ contact[db[i].team_id].finalclass = "Team"
        /\ contact[db[i].team_id].name = row.name
        /\ DATE_FORMAT(db[i].start_date) = row.month
        /\ TypeOfClass(db[i].finalclass) = row.ticket_type}

\* the in-scope tickets of an agent-statistics group
PersonGroup(row) ==
    {i \in InScope(AllClasses) :
        /\ db[i].agent_id \in DOMAIN person
        /\ db[i].agent_id \in DOMAIN contact
        /\ <<contact[db[i].agent_id].name, person[db[i].agent_id].first_name>> = row.name
        /\ DATE_FORMAT(db[i].start_date) = row.month
        /\ TypeOfClass(db[i].finalclass) = row.ticket_type}

\* the figures of a group row agree with the tickets G of its group
GroupRowOk(row, G) ==
    /\ row.count = Cardinality(G)
    /\ row.count > 0
    /\ row.resolved + row.unresolved = row.count
    /\ row.unresolved = Cardinality({i \in G : db[i].status \notin {"resolved", "closed"}})
    /\ row.overdue = Cardinality({i \in G : Breached(i)})
    /\ IsPercentage(row.resolution_rate, row.count - row.unresolved, row.count)
    /\ IsPercentage(row.timeliness_rate, row.count - row.overdue, row.count)

\* C9: in every group row of get_team_stats and get_person_stats, resolved +
\* unresolved = count, the resolution rate is (count - unresolved) / count,
\* the timeliness rate is (count - overdue) / count with overdue the number
\* of tickets of the group with a breach flag set, and count > 0.
C9_GroupRates ==
    /\ Fetched("get_team_stats") => \A row \in team_stats : GroupRowOk(row, TeamGroup(row))
    /\ Fetched("get_person_stats") =>
          \A row \in person_stats : GroupRowOk(row, PersonGroup(row))

\* C9 witness: a team group of two tickets, one unresolved and one overdue,
\* and an agent group with an overdue ticket
C9_Witness ==
    /\ Fetched("get_person_stats")
    /\ \E row \in team_stats : row.count = 2 /\ row.unresolved = 1 /\ row.overdue = 1
    /\ \E row \in person_stats : row.overdue = 1 /\ row.timeliness_rate = 0


----------------------------------------------------------------------------
(* KPI tables *)

\* in-scope requests and incidents
KpiInScope == InScope({"UserRequest", "Incident"})

\* the service and the sub-service a ticket resolves to ("NULL" if none)
ServiceName(i) ==
    IF db[i].service_id \in DOMAIN service THEN service[db[i].service_id] ELSE "NULL"

SubServiceName(i) ==
    IF db[i].servicesubcategory_id \in DOMAIN servicesubcategory
    THEN servicesubcategory[db[i].servicesubcategory_id] ELSE "NULL"

\* the two KPI partitions
InfraPartition == {i \in KpiInScope : ServiceName(i) \notin {"NULL", "App"}}

AppPartition == {i \in KpiInScope : ServiceName(i) = "App"}

\* the name of a ticket's bucket: sub-service, else service, else unclassified
Label(i) ==
    IF SubServiceName(i) # "NULL" THEN SubServiceName(i)
    ELSE IF ServiceName(i) # "NULL" THEN ServiceName(i) ELSE "Unclassified"

\* resolved in the KPI sense: resolved or closed, resolution SLA not breached
KpiResolved(i) == db[i].status \in {"resolved", "closed"} /\ db[i].ttr_100_passed # 1

\* the tickets of partition P started in the month of a table row
InMonth(P, m) == {i \in P : m = "Total" \/ DATE_FORMAT(db[i].start_date) = m}

\* the rows of the pivot pass agree with the tickets of their group
PivotPassOk(P, info) ==
    \A r \in info :
        LET G == {i \in P : /\ DATE_FORMAT(db[i].start_date) = r.key[1]
                            /\ ServiceName(i) = r.key[2]
                            /\ SubServiceName(i) = r.key[3]}
        IN  /\ r.total = Cardinality(G)
            /\ r.resolved = Cardinality({i \in G : KpiResolved(i)})
            /\ IsPercentage(r.ticket_resolution_rate, r.resolved, r.total)

\* every filled cell of a month row is the rate resolved / total of a
\* (service, sub-service) group of that month whose name is the column's
CellsOk(P, tbl) ==
    \A row \in tbl.rows : \A n \in tbl.columns :
        (row.month # "Total" /\ row.cells[n].num # NULLNUM) =>
            \E j \in P :
                LET G == {i \in InMonth(P, row.month) :
                             /\ ServiceName(i) = ServiceName(j)
                             /\ SubServiceName(i) = SubServiceName(j)}
                IN  /\ j \in G
                    /\ Label(j) = n
                    /\ IsPercentage(row.cells[n].num,
                                    Cardinality({i \in G : KpiResolved(i)}), Cardinality(G))

C2_WeightedTotal ==
    /\ Fetched("get_infra_kpi_stats") =>
          \A row \in infra_kpi_stats.rows :
              row.month # "Total" =>
                  LET G == InMonth(InfraPartition, row.month)
                  IN  IsPercentage(row.kpi_total.num,
                                   Cardinality({i \in G : KpiResolved(i)}), Cardinality(G))
    /\ Fetched("get_app_kpi_stats") =>
          \A row \in app_kpi_stats.rows :
              row.month # "Total" =>
                  LET G == InMonth(AppPartition, row.month)
                  IN  IsPercentage(row.kpi_total.num,
                                   Cardinality({i \in G : KpiResolved(i)}), Cardinality(G))

\* C5 as claimed: with a single non-Application service N the Infra table
\* has the one service column N, an empty unclassified column, and KPI_total
\* equal to column N in every row.
C5_SingleService ==
    Fetched("get_infra_kpi_stats") =>
        \A N \in {"Net", "Db"} :
            (KpiInScope # {} /\ \A i \in KpiInScope : ServiceName(i) = N) =>
                /\ infra_kpi_stats.columns = {N, "Unclassified"}
                /\ \A row \in infra_kpi_stats.rows :
                      /\ row.cells["Unclassified"].num = NULLNUM
                      /\ row.kpi_total.num = row.cells[N].num

\* the Total row of a KPI table agrees with its month rows and its tickets
TotalRowOk(P, tbl) ==
    LET months == {row \in tbl.rows : row.month # "Total"}
        totals == {row \in tbl.rows : row.month = "Total"}
    IN  months # {} =>
          /\ Cardinality(totals) = 1
          /\ \A T \in totals :
                /\ T.total_count = SumOver(months, [row \in months |-> row.total_count])
                /\ T.resolved_count = SumOver(months, [row \in months |-> row.resolved_count])
                /\ IsPercentage(T.kpi_total.num, T.resolved_count, T.total_count)
                /\ \A n \in tbl.columns :
                      LET G == {i \in P : Label(i) = n}
                      IN  IF G = {} THEN T.cells[n].num = NULLNUM
                          ELSE IsPercentage(T.cells[n].num,
                                            Cardinality({i \in G : KpiResolved(i)}),
                                            Cardinality(G))

\* C6 as claimed: a KPI table with a month row has exactly one Total row,
\* whose counts are the sums of the month rows, whose KPI_total is the ratio
\* of these sums, and whose service cells are the services' overall rates.
C6_TotalRow ==
    /\ Fetched("get_infra_kpi_stats") => TotalRowOk(InfraPartition, infra_kpi_stats)
    /\ Fetched("get_app_kpi_stats") => TotalRowOk(AppPartition, app_kpi_stats)

\* C7 as claimed: an in-scope request or incident with neither service nor
\* sub-service is counted in the unclassified bucket of a KPI table.
C7_UnclassifiedCounted ==
    Fetched("get_app_kpi_stats") =>
        \A i \in KpiInScope :
            (ServiceName(i) = "NULL" /\ SubServiceName(i) = "NULL") =>
                \E tbl \in {infra_kpi_stats, app_kpi_stats} : \E row \in tbl.rows :
                    /\ row.month = DATE_FORMAT(db[i].start_date)
                    /\ row.cells["Unclassified"].num # NULLNUM
                    /\ row.total_count >= 1

\* C8: no request or incident is counted in both KPI tables: the App table
\* counts the tickets of service Application and only them, the Infra table
\* counts no ticket of that service.
C8_DisjointPartitions ==
    /\ \A i \in InfraRows(db, start_date, end_date) : ServiceName(i) # "App"
    /\ \A i \in AppRows(db, start_date, end_date) : ServiceName(i) = "App"
    /\ Fetched("get_infra_kpi_stats") =>
          /\ "App" \notin infra_kpi_stats.columns
          /\ \A row \in infra_kpi_stats.rows :
                row.total_count <= Cardinality(InMonth(InfraPartition, row.month))
    /\ Fetched("get_app_kpi_stats") =>
          \A row \in app_kpi_stats.rows :
              row.total_count = Cardinality(InMonth(AppPartition, row.month))

\* C8 witness: an Application ticket and another ticket, one in each table
C8_Witness ==
    /\ Fetched("get_app_kpi_stats")
    /\ \E row \in app_kpi_stats.rows : row.month = "Total" /\ row.total_count = 1
    /\ \E row \in infra_kpi_stats.rows : row.month = "Total" /\ row.total_count = 1


----------------------------------------------------------------------------
(* Tickets in intake *)

NotNew(t) == t.status # "new"

\* the ticket table without its tickets in status new
WithoutNew == SelectSeq(db, NotNew)

\* the aggregated rollups are what they are without the tickets in status new
NewNotAggregated ==
    /\ ticket_summary = get_ticket_summary(WithoutNew, start_date, end_date)
    /\ user_request_stats = get_user_request_stats(WithoutNew, start_date, end_date)
    /\ incident_stats = get_incident_stats(WithoutNew, start_date, end_date)
    /\ change_stats = get_change_stats(WithoutNew, start_date, end_date)
    /\ team_stats = get_team_stats(WithoutNew, start_date, end_date)
    /\ person_stats = get_person_stats(WithoutNew, start_date, end_date)
    /\ infra_kpi_stats \in get_infra_kpi_stats(WithoutNew, start_date, end_date)
    /\ app_kpi_stats \in get_app_kpi_stats(WithoutNew, start_date, end_date)

\* C10 as claimed: a ticket in status new is counted in no rollup and is in
\* neither the unresolved list nor the overdue list, whatever its flags.
C10_NewExcluded ==
    Fetched("get_app_kpi_stats") =>
        /\ NewNotAggregated
        /\ \A row \in unresolved_tickets : db[row.ref].status # "new"
        /\ \A row \in overdue_tickets : row.status # "new" /\ db[row.ref].status # "new"

\* the same for every rollup but the overdue list
NewExcludedElsewhere ==
    Fetched("get_app_kpi_stats") =>
        /\ NewNotAggregated
        /\ \A row \in unresolved_tickets : db[row.ref].status # "new"

----------------------------------------------------------------------------
(* The period *)

\* the tickets of the period: start_date in [start_date, end_date), not a Problem
PeriodScope ==
    {i \in DOMAIN db : /\ db[i].start_date >= start_date
                       /\ db[i].start_date < end_date
                       /\ db[i].finalclass # "Problem"}

\* the ticket table restricted to the tickets of the period (references kept)
Scoped == [i \in PeriodScope |-> db[i]]

\* C11: every rollup takes into account only the tickets whose start_date is
\* in [start_date, end_date) and whose class is not Problem: each of the ten
\* tables is what the function returns on the tickets of the period alone,
\* and the summary counts exactly those of them that have left intake, so a
\* ticket started at start_date is counted and one started at end_date is not.
C11_PeriodScope ==
    /\ Fetched("get_ticket_summary") =>
          /\ ticket_summary = get_ticket_summary(Scoped, start_date, end_date)
          /\ ticket_summary[1].total =
                Cardinality({i \in PeriodScope : db[i].status # "new"})
    /\ Fetched("get_user_request_stats") =>
          user_request_stats = get_user_request_stats(Scoped, start_date, end_date)
    /\ Fetched("get_incident_stats") =>
          incident_stats = get_incident_stats(Scoped, start_date, end_date)
    /\ Fetched("get_change_stats") =>
          change_stats = get_change_stats(Scoped, start_date, end_date)
    /\ Fetched("get_team_stats") =>
          team_stats = get_team_stats(Scoped, start_date, end_date)
    /\ Fetched("get_person_stats") =>
          person_stats = get_person_stats(Scoped, start_date, end_date)
    /\ Fetched("get_unresolved_tickets") =>
          /\ unresolved_tickets = get_unresolved_tickets(Scoped, start_date, end_date)
          /\ \A row \in unresolved_tickets : row.ref \in PeriodScope
    /\ Fetched("get_overdue_tickets") =>
          /\ overdue_tickets \in get_overdue_tickets(Scoped, start_date, end_date)
          /\ \A row \in overdue_tickets : row.ref \in PeriodScope
    /\ Fetched("get_infra_kpi_stats") =>
          infra_kpi_stats \in get_infra_kpi_stats(Scoped, start_date, end_date)
    /\ Fetched("get_app_kpi_stats") =>
          app_kpi_stats \in get_app_kpi_stats(Scoped, start_date, end_date)

\* C11 witness: one ticket started at start_date, one started at end_date,
\* and every rollup has run: the summary counts one ticket
C11_Witness ==
    /\ Fetched("get_app_kpi_stats")
    /\ \E i \in DOMAIN db : db[i].start_date = start_date /\ db[i].finalclass # "Problem"
    /\ \E i \in DOMAIN db : db[i].start_date = end_date /\ db[i].finalclass # "Problem"
    /\ ticket_summary[1].total = 1

----------------------------------------------------------------------------
(* The two views *)

\* the views that have been produced: the document, the interactive view
Produced ==
    (IF pdf # <<>> THEN {pdf[1]} ELSE {}) \cup (IF view # <<>> THEN {view[1]} ELSE {})

\* the percentages of a status narrative that have a zero denominator show N/A
StatusMarked(sec) ==
    sec.text = "narrative" =>
        /\ sec.figures.total = 0 =>
              /\ sec.figures.resolved_percentage.shown = "N/A"
              /\ sec.figures.unresolved_percentage.shown = "N/A"
        /\ sec.figures.resolved = 0 => sec.figures.closed_percentage.shown = "N/A"

\* the same for the change narrative: closed of total, resolved of closed
ChangeMarked(sec) ==
    sec.text = "narrative" =>
        /\ sec.figures.total = 0 => sec.figures.closed_percentage.shown = "N/A"
        /\ sec.figures.closed = 0 => sec.figures.resolved_percentage.shown = "N/A"

\* C12 as claimed: a rate with a zero denominator is shown as N/A in either
\* view, never as 0%.
C12_UndefinedMarker ==
    \A v \in Produced :
        /\ StatusMarked(v.requests)
        /\ StatusMarked(v.incidents)
        /\ ChangeMarked(v.changes)

----------------------------------------------------------------------------
(* The empty period *)

\* a one-row aggregate whose fields are all zero
ZeroRow(stats) == \A f \in DOMAIN stats[1] : stats[1][f] = 0

\* C13 as claimed: for a period without tickets every rollup returns no row
\* or a row of zero counts, and no field is NULL.
C13_EmptyPeriodZero ==
    (Fetched("get_app_kpi_stats") /\ PeriodScope = {}) =>
        /\ ZeroRow(ticket_summary)
        /\ ZeroRow(user_request_stats)
        /\ ZeroRow(incident_stats)
        /\ ZeroRow(change_stats)
        /\ team_stats = {}
        /\ person_stats = {}
        /\ unresolved_tickets = {}
        /\ overdue_tickets = {}
        /\ infra_kpi_stats.rows = {}
        /\ app_kpi_stats.rows = {}

\* the same without the aggregates computed by SUM: the count of each one-row
\* aggregate is zero and the grouped tables and the lists have no row
EmptyPeriodRows ==
    (Fetched("get_app_kpi_stats") /\ PeriodScope = {}) =>
        /\ ticket_summary[1].total = 0
        /\ user_request_stats[1].total = 0
        /\ incident_stats[1].total = 0
        /\ change_stats[1].total = 0
        /\ team_stats = {}
        /\ person_stats = {}
        /\ unresolved_tickets = {}
        /\ overdue_tickets = {}
        /\ infra_kpi_stats.rows = {}
        /\ app_kpi_stats.rows = {}

----------------------------------------------------------------------------
(* Sections without data *)

\* a section that shows its 'no activity' text and no chart
NoActivity(sec) == sec.text = "no_activity" /\ sec.chart = "none"

\* the sections of the view v whose rollup has no row or a zero total show
\* the text and no chart
EmptySectionsOk(v) ==
    /\ user_request_stats[1].total = 0 => NoActivity(v.requests)
    /\ incident_stats[1].total = 0 => NoActivity(v.incidents)
    /\ change_stats[1].total = 0 => NoActivity(v.changes)
    /\ team_stats = {} => NoActivity(v.team)
    /\ infra_kpi_stats.rows = {} => NoActivity(v.infra)
    /\ app_kpi_stats.rows = {} => NoActivity(v.app)

\* C14 as claimed: in both views a rollup with zero rows or a zero total gives
\* its section the 'no activity' text and no pie chart and no line chart.
C14_NoChartWithoutData == \A v \in Produced : EmptySectionsOk(v)

\* the document view alone
DocumentNoChartWithoutData == pdf # <<>> => EmptySectionsOk(pdf[1])

\* the status breakdowns of the interactive view alone
ViewStatusNoChartWithoutData ==
    view # <<>> =>
        /\ user_request_stats[1].total = 0 => NoActivity(view[1].requests)
        /\ incident_stats[1].total = 0 => NoActivity(view[1].incidents)
        /\ change_stats[1].total = 0 => NoActivity(view[1].changes)

----------------------------------------------------------------------------
(* The unresolved list *)

\* the requests, incidents and changes of the period whose status is none of
\* new, resolved, closed
Unresolved ==
    {i \in PeriodScope : /\ db[i].finalclass \in AllClasses
                         /\ db[i].status \notin {"new", "resolved", "closed"}}

\* C15: get_unresolved_tickets returns one row for each request, incident or
\* change of the period whose status is none of new, resolved, closed, with
\* the status of that ticket, and no row for any other ticket.
C15_UnresolvedList ==
    Fetched("get_unresolved_tickets") =>
        /\ {row.ref : row \in unresolved_tickets} = Unresolved
        /\ Cardinality(unresolved_tickets) = Cardinality(Unresolved)
        /\ \A row \in unresolved_tickets : row.status = db[row.ref].status

\* C15 witness: an assigned ticket of the period is listed, and a ticket that
\* is new, resolved, closed, a Problem or out of the period is not
C15_Witness ==
    /\ Fetched("get_unresolved_tickets")
    /\ Cardinality(unresolved_tickets) = 1
    /\ \E i \in DOMAIN db : i \notin Unresolved

----------------------------------------------------------------------------
(* The overdue list *)

\* the tickets of the period that have left intake and breached a deadline
BreachedTickets == {i \in PeriodScope : db[i].status # "new" /\ Breached(i)}

\* C16 as claimed: get_overdue_tickets lists one row per in-scope ticket whose
\* response or resolution flag is set, so two breached tickets of the same
\* status give two rows (the rows of tickets in intake set aside).
C16_RowPerBreach ==
    Fetched("get_overdue_tickets") =>
        LET rows == {row \in overdue_tickets : row.status # "new"}
        IN  /\ {row.ref : row \in rows} = BreachedTickets
            /\ Cardinality(rows) = Cardinality(BreachedTickets)

\* what the list does hold: one row per status of the breached requests of
\* the period, built from one of the requests of that status
OverdueRowPerStatus ==
    Fetched("get_overdue_tickets") =>
        LET R == {i \in PeriodScope : /\ db[i].finalclass = "UserRequest"
                                      /\ (db[i].tto_100_passed = 1 \/ db[i].ttr_100_passed = 1)}
        IN  /\ {row.status : row \in overdue_tickets} = {db[i].status : i \in R}
            /\ Cardinality(overdue_tickets) = Cardinality({db[i].status : i \in R})
            /\ \A row \in overdue_tickets :
                  row.ref \in R /\ db[row.ref].status = row.status

----------------------------------------------------------------------------
(* Calling a rollup twice *)

\* a second call of the seven functions whose query determines its rows
\* returns the table the first call returned (the order of rows set aside)
SecondCallSame ==
    /\ Fetched("get_ticket_summary") =>
          get_ticket_summary(db, start_date, end_date) = ticket_summary
    /\ Fetched("get_user_request_stats") =>
          get_user_request_stats(db, start_date, end_date) = user_request_stats
    /\ Fetched("get_incident_stats") =>
          get_incident_stats(db, start_date, end_date) = incident_stats
    /\ Fetched("get_change_stats") =>
          get_change_stats(db, start_date, end_date) = change_stats
    /\ Fetched("get_team_stats") =>
          get_team_stats(db, start_date, end_date) = team_stats
    /\ Fetched("get_person_stats") =>
          get_person_stats(db, start_date, end_date) = person_stats
    /\ Fetched("get_unresolved_tickets") =>
          get_unresolved_tickets(db, start_date, end_date) = unresolved_tickets

\* C19 as claimed: a second call of any rollup function with the same period
\* on the unchanged ticket table returns the table the first call returned,
\* get_overdue_tickets and the KPI tables included.
C19_Idempotent ==
    /\ SecondCallSame
    /\ Fetched("get_overdue_tickets") =>
          \A again \in get_overdue_tickets(db, start_date, end_date) :
              again = overdue_tickets
    /\ Fetched("get_infra_kpi_stats") =>
          \A again \in get_infra_kpi_stats(db, start_date, end_date) :
              again = infra_kpi_stats
    /\ Fetched("get_app_kpi_stats") =>
          \A again \in get_app_kpi_stats(db, start_date, end_date) :
              again = app_kpi_stats

----------------------------------------------------------------------------
(* Equivalence of the two views *)

\* the numeric values of a view: the total, the figures of the narratives
\* and the cells of the tables (texts and charts set aside)
Numbers(v) ==
    [total_tickets |-> v.total_tickets,
     requests |-> v.requests.figures,
     incidents |-> v.incidents.figures,
     changes |-> v.changes.figures,
     team |-> v.team.table,
     persons |-> v.persons.table,
     unresolved |-> v.unresolved.table,
     overdue |-> v.overdue.table,
     infra |-> v.infra.table,
     app |-> v.app.table]

\* the interactive view of the ten tables when no export has run
Unexported ==
    InteractiveView(ticket_summary, user_request_stats, incident_stats, change_stats,
                    team_stats, person_stats, unresolved_tickets, overdue_tickets,
                    infra_kpi_stats, app_kpi_stats, {})

\* C17 as claimed: the numeric values of the interactive view are those of
\* the document view of the same tables, and they are the same whether or not
\* the export ran before the sections were rendered.
C17_RenderEquivalence ==
    view # <<>> =>
        /\ pdf # <<>> => Numbers(view[1]) = Numbers(pdf[1])
        /\ Numbers(view[1]) = Numbers(Unexported)

\* the same when no export ran, or when DataFrame(frame) copies the columns
EquivalentWithoutSharing ==
    (view # <<>> /\ ~(env.button /\ env.shares)) =>
        /\ pdf # <<>> => Numbers(view[1]) = Numbers(pdf[1])
        /\ Numbers(view[1]) = Numbers(Unexported)

----------------------------------------------------------------------------
(* Queries of one invocation *)

\* a step of the export block or of the rendering runs no query and leaves
\* the ten tables in place
QueriesLeftAlone ==
    pc \in {"export", "render"} => (calls' = calls /\ results' = results)

\* C18: in one invocation no rollup function runs twice, all ten have run
\* once when the document or the interactive view is produced, and neither
\* the export nor the rendering runs a query or replaces one of the ten
\* tables.
C18_QueriedOnce ==
    /\ [](\A f \in RollupFunctions :
             /\ calls[f] <= 1
             /\ (pdf # <<>> \/ view # <<>>) => calls[f] = 1)
    /\ [][QueriesLeftAlone]_vars

\* C18 witness: the export ran, the view is rendered, every function ran once
C18_Witness ==
    /\ pdf # <<>>
    /\ view # <<>>
    /\ \A f \in RollupFunctions : calls[f] = 1

----------------------------------------------------------------------------
(* A failing query *)

\* the invocation is over: the view is rendered or an exception left main()
Over == pc \in {"done", "failed"}

\* the section of the interactive view that shows the table of function f
SectionOf(v, f) ==
    CASE f = "get_user_request_stats" -> v.requests
      [] f = "get_incident_stats" -> v.incidents
      [] f = "get_change_stats" -> v.changes
      [] f = "get_team_stats" -> v.team
      [] f = "get_person_stats" -> v.persons
      [] f = "get_unresolved_tickets" -> v.unresolved
      [] f = "get_overdue_tickets" -> v.overdue
      [] f = "get_infra_kpi_stats" -> v.infra
      [] f = "get_app_kpi_stats" -> v.app

\* C20 as claimed: when the query of one rollup other than the summary fails,
\* the interactive view is still rendered, the section of that rollup shows
\* the placeholder and the other sections are what they are without the
\* failure.
C20_FailureLocalized ==
    (Over /\ env.outage \in RollupFunctions \ {"get_ticket_summary"}) =>
        /\ view # <<>>
        /\ SectionOf(view[1], env.outage).text = "no_data"

\* what the code does: any failing query ends the invocation without a view,
\* and the functions after it are not called
FailureAborts ==
    (Over /\ env.outage \in RollupFunctions) =>
        /\ pc = "failed"
        /\ view = <<>>
        /\ pdf = <<>>
        /\ calls[env.outage] = 1
        /\ \A k \in 1..10 :
              calls[CallOrder[k]] =
                 IF k <= (CHOOSE j \in 1..10 : CallOrder[j] = env.outage) THEN 1 ELSE 0

----------------------------------------------------------------------------
(* A failing document *)

\* C21 as claimed: when the export is asked for and the document cannot be
\* assembled (font file missing, or build failing), the error and the font
\* hint are shown, no document is offered, and the interactive view is
\* rendered all the same.
C21_DocumentFailureSurfaced ==
    (Over /\ env.button /\ env.fault # "none") =>
        /\ ExportErrors \subseteq errors
        /\ pdf = <<>>
        /\ view # <<>>

\* the same for a document whose build fails inside generate_pdf
BuildFailureSurfaced ==
    (Over /\ env.button /\ env.fault = "build") =>
        /\ errors = ExportErrors
        /\ pdf = <<>>
        /\ view # <<>>

\* with the font file missing nothing of main() runs, whether or not the
\* export is asked for
FontMissingAborts ==
    env.fault = "font" =>
        /\ pc = "failed"
        /\ view = <<>>
        /\ errors = {}
        /\ \A f \in RollupFunctions : calls[f] = 0

----------------------------------------------------------------------------
(* Durations of the team and agent statistics *)

\* seconds from the start to the end of the response of ticket i
ResponseOf(i) ==
    IF db[i].tto_started = NULLNUM \/ db[i].tto_stopped = NULLNUM THEN NULLNUM
    ELSE db[i].tto_stopped - db[i].tto_started

\* seconds of the resolution of ticket i: from the end of the response to the
\* end of the resolution, and for a change from its start to its end
ResolutionOf(i) ==
    IF db[i].finalclass \in ChangeClasses
    THEN IF db[i].end_date = NULLNUM THEN NULLNUM
         ELSE db[i].end_date - 86400 * db[i].start_date
    ELSE IF db[i].tto_stopped = NULLNUM \/ db[i].ttr_stopped = NULLNUM THEN NULLNUM
         ELSE db[i].ttr_stopped - db[i].tto_stopped

\* h (hundredths of a minute) is the mean of the seconds dur over the tickets
\* of G that have one, rounded to two decimals; NULL if none has one
IsMeanMinutes(h, G, dur) ==
    LET V == {i \in G : dur[i] # NULLNUM}
        n == Cardinality(V)
        sum == SumOver(V, [i \in V |-> dur[i]])
    IN  IF V = {} THEN h = NULLNUM
        ELSE h # NULLNUM /\ 2 * (h * n * 60 - sum * 100) <= n * 60
                         /\ 2 * (sum * 100 - h * n * 60) <= n * 60

\* h (hundredths of a minute) is the largest of the seconds dur over G
IsMaxMinutes(h, G, dur) ==
    LET V == {i \in G : dur[i] # NULLNUM}
    IN  IF V = {} THEN h = NULLNUM
        ELSE /\ h # NULLNUM
             /\ \E i \in V : /\ \A j \in V : dur[j] <= dur[i]
                             /\ 2 * (h * 60 - dur[i] * 100) <= 60
                             /\ 2 * (dur[i] * 100 - h * 60) <= 60

\* the duration columns of a group row agree with the tickets G of its group
DurationsOk(row, G) ==
    LET response == [i \in G |-> ResponseOf(i)]
        resolution == [i \in G |-> ResolutionOf(i)]
    IN  /\ IsMeanMinutes(row.avg_resolution, G, resolution)
        /\ IsMaxMinutes(row.max_resolution, G, resolution)
        /\ IF row.ticket_type = "change"
           THEN /\ row.avg_response.text = "N/A"
                /\ row.max_response.text = "N/A"
                /\ row.overdue = 0
                /\ row.timeliness_rate = 10000
           ELSE /\ row.avg_response.text # "N/A"
                /\ row.max_response.text # "N/A"
                /\ IsMeanMinutes(row.avg_response.num, G, response)
                /\ IsMaxMinutes(row.max_response.num, G, response)

\* C22: in get_team_stats and get_person_stats a change group shows the
\* literal N/A as average and maximum response time, 0 overdue tickets, a
\* timeliness of 100% and resolution times measured from the start to the
\* end of the change; a request or incident group shows response times
\* measured from the start to the end of the response and resolution times
\* measured from the end of the response to the end of the resolution.
C22_GroupDurations ==
    /\ Fetched("get_team_stats") => \A row \in team_stats : DurationsOk(row, TeamGroup(row))
    /\ Fetched("get_person_stats") =>
          \A row \in person_stats : DurationsOk(row, PersonGroup(row))

\* C22 witness: a change group with a resolution time of 20 minutes next to
\* a request group with a response of 3 minutes and a resolution of 2 minutes
C22_Witness ==
    /\ Fetched("get_person_stats")
    /\ \E row \in team_stats :
          /\ row.ticket_type = "change"
          /\ row.avg_response.text = "N/A"
          /\ row.avg_resolution = 2000
    /\ \E row \in person_stats :
          /\ row.ticket_type = "request"
          /\ row.avg_response.num = 300
          /\ row.max_response.num = 300
          /\ row.avg_resolution = 200
          /\ row.max_resolution = 200

----------------------------------------------------------------------------
(* The two passes of the KPI queries *)

\* the (month, service-name) pair of ticket i has a column in tbl, and the
\* cell of the month's row in that column holds the resolution rate of the
\* tickets of P of that pair
PairHasCell(P, tbl, i) ==
    LET m == DATE_FORMAT(db[i].start_date)
        G == {j \in P : DATE_FORMAT(db[j].start_date) = m /\ Label(j) = Label(i)}
    IN  /\ Label(i) \in tbl.columns
        /\ \E row \in tbl.rows :
              /\ row.month = m
              /\ row.cells[Label(i)].num # NULLNUM
              /\ IsPercentage(row.cells[Label(i)].num,
                              Cardinality({j \in G : KpiResolved(j)}), Cardinality(G))

\* every column of a discovered service is filled in some row
ColumnsFilled(tbl) ==
    \A n \in tbl.columns \ {"Unclassified"} : \E row \in tbl.rows : row.cells[n].num # NULLNUM

\* C23: in get_infra_kpi_stats and get_app_kpi_stats the discovery pass and
\* the pivot pass give a ticket the same service name, every (month,
\* service-name) pair the pivot pass aggregates has a column of that name
\* whose cell in the month's row holds the pair's resolution rate, and no
\* column of a discovered service is null in every row.
C23_PassesAgree ==
    /\ \A i \in InfraPartition : InfraServiceOf(db[i]) = PivotServiceOf(db[i])
    /\ \A i \in AppPartition : AppServiceOf(db[i]) = PivotServiceOf(db[i])
    /\ Fetched("get_infra_kpi_stats") =>
          /\ \A i \in InfraPartition : PairHasCell(InfraPartition, infra_kpi_stats, i)
          /\ ColumnsFilled(infra_kpi_stats)
    /\ Fetched("get_app_kpi_stats") =>
          /\ \A i \in AppPartition : PairHasCell(AppPartition, app_kpi_stats, i)
          /\ ColumnsFilled(app_kpi_stats)

\* what holds of the passes: those of get_app_kpi_stats name a ticket alike,
\* and in get_infra_kpi_stats a ticket without a sub-service, the only one of
\* its month and service, has its column and its cell
PassesAgreeWithoutSubService ==
    /\ \A i \in AppPartition : AppServiceOf(db[i]) = PivotServiceOf(db[i])
    /\ Fetched("get_app_kpi_stats") =>
          \A i \in AppPartition : Label(i) \in app_kpi_stats.columns
    /\ Fetched("get_infra_kpi_stats") =>
          \A i \in InfraPartition :
              (\A j \in InfraPartition :
                  /\ SubServiceName(j) = "NULL"
                  /\ (j # i => (Label(j) # Label(i)
                                \/ DATE_FORMAT(db[j].start_date) # DATE_FORMAT(db[i].start_date))))
                  => PairHasCell(InfraPartition, infra_kpi_stats, i)

----------------------------------------------------------------------------
(* The trend chart of the team statistics *)

\* the months of the team statistics
TeamMonths == {r.month : r \in team_stats}

\* C24: the trend line chart of the team section is in the document view if
\* and only if it is in the interactive view, and it is there only when the
\* team statistics span more than one month.
C24_TeamChartAlike ==
    (pc = "done" /\ pdf # <<>>) =>
        /\ (pdf[1].team.chart = "line") <=> (view[1].team.chart = "line")
        /\ (pdf[1].team.chart = "line") => Cardinality(TeamMonths) > 1

\* what holds of the chart: the interactive view has it exactly when the
\* team statistics span more than one month, the document view exactly when
\* they are not empty
TeamChartPerView ==
    (pc = "done" /\ pdf # <<>>) =>
        /\ (view[1].team.chart = "line") <=> (Cardinality(TeamMonths) > 1)
        /\ (pdf[1].team.chart = "line") <=> (team_stats # {})

----------------------------------------------------------------------------
(* itop_report_20250110.py: the rollups of the module of 2025-01-10 *)

\* the 75% breach flag of ticket t next to its 100% flag col; value lists
\* that leave the 75% flags out stand for tickets whose flags are equal
passed_75(t, col) ==
    IF col = "tto_100_passed"
    THEN (IF "tto_75_passed" \in DOMAIN t THEN t.tto_75_passed ELSE t.tto_100_passed)
    ELSE (IF "ttr_75_passed" \in DOMAIN t THEN t.ttr_75_passed ELSE t.ttr_100_passed)

\* the table as the queries of 2025-01-10 read it: tto_75_passed and
\* ttr_75_passed in the places of tto_100_passed and ttr_100_passed
Read75(d) ==
    [i \in DOMAIN d |-> [d[i] EXCEPT !.tto_100_passed = passed_75(d[i], "tto_100_passed"),
                                     !.ttr_100_passed = passed_75(d[i], "ttr_100_passed")]]

\* the select list of 2025-01-10 has no column '已解决'
WithoutResolved(row) == [c \in (DOMAIN row) \ {"resolved"} |-> row[c]]

get_team_stats_20250110(d, s, e) ==
    {WithoutResolved(row) : row \in get_team_stats(Read75(d), s, e)}

get_person_stats_20250110(d, s, e) ==
    {WithoutResolved(row) : row \in get_person_stats(Read75(d), s, e)}

\* AND ( tr.tto_75_passed = 1 or tr.ttr_75_passed ): a flag of 0, 1 or NULL
\* is true exactly when it is 1
get_overdue_tickets_20250110(d, s, e) == get_overdue_tickets(Read75(d), s, e)

\* WITH tmp_info of 2025-01-10: resolved is
\* COUNT(*) - SUM(CASE WHEN status NOT IN ('closed', 'new', 'resolved') THEN 1 ELSE 0 END)
tmp_info_20250110(d, R) ==
    LET key(i) == <<DATE_FORMAT(d[i].start_date), s_name(d[i]), s2_name(d[i])>>
    IN  {LET G == {i \in R : key(i) = k}
             total == Cardinality(G)
             resolved == total - Cardinality({i \in G : InUnresolvedBucket(d[i].status)})
         IN  [key |-> k,
              ticket_month |-> k[1],
              service_name |-> COALESCE(k[3], COALESCE(k[2], "Unclassified")),
              total |-> total,
              resolved |-> resolved,
              ticket_resolution_rate |-> RateDivFirst(resolved, total)]
         : k \in {key(i) : i \in R}}

\* get_infra_kpi_stats of 2025-01-10: the discovery pass is
\* COALESCE(s2.name, COALESCE(s.name, '未分类')), as the pivot pass
get_infra_kpi_stats_20250110(d, s, e) ==
    LET R == InfraRows(d, s, e)
        cols == PivotColumns({PivotServiceOf(d[i]) : i \in R})
        info == tmp_info_20250110(d, R)
    IN  {KpiTable(info, cols, rep) : rep \in MonthBranchReps(info)}

get_app_kpi_stats_20250110(d, s, e) ==
    LET R == AppRows(d, s, e)
        cols == PivotColumns({AppServiceOf(d[i]) : i \in R})
        info == tmp_info_20250110(d, R)
    IN  {KpiTable(info, cols, rep) : rep \in MonthBranchReps(info)}

\* the counts and rates of the rollups that read a breach flag or differ in
\* text, as the module of 2025-01-10 returns them (summary, status
\* breakdowns and unresolved list have the same text in both modules)
Rollups_20250110 ==
    [team |-> get_team_stats_20250110(db, start_date, end_date),
     person |-> get_person_stats_20250110(db, start_date, end_date),
     overdue |-> get_overdue_tickets_20250110(db, start_date, end_date),
     infra |-> get_infra_kpi_stats_20250110(db, start_date, end_date),
     app |-> get_app_kpi_stats_20250110(db, start_date, end_date)]

\* the same rollups as itop_report.py returns them, in the columns the
\* module of 2025-01-10 has
Rollups ==
    [team |-> {WithoutResolved(r) : r \in get_team_stats(db, start_date, end_date)},
     person |-> {WithoutResolved(r) : r \in get_person_stats(db, start_date, end_date)},
     overdue |-> get_overdue_tickets(db, start_date, end_date),
     infra |-> get_infra_kpi_stats(db, start_date, end_date),
     app |-> get_app_kpi_stats(db, start_date, end_date)]

\* C25: itop_report_20250110.py and itop_report.py differ only in the breach
\* flags they read: on tickets whose 75% flags equal their 100% flags every
\* rollup of the two modules returns the same counts and rates, the KPI
\* resolved counts and the overdue selection among them.
C25_ModulesAgree ==
    Fetched("get_app_kpi_stats") => Rollups_20250110 = Rollups

\* what holds of the two modules: the team and agent statistics (in the
\* columns both have), the overdue selection and the KPI totals agree
ModulesAgreeOutsideKpi ==
    Fetched("get_app_kpi_stats") =>
        /\ Rollups_20250110.team = Rollups.team
        /\ Rollups_20250110.person = Rollups.person
        /\ Rollups_20250110.overdue = Rollups.overdue
        /\ \A old \in Rollups_20250110.app : \A new \in Rollups.app :
              {<<r.month, r.total_count>> : r \in old.rows}
                  = {<<r.month, r.total_count>> : r \in new.rows}

----------------------------------------------------------------------------
(* The counts of the month rows of the KPI tables *)

\* the counts of the month rows of tbl are those of the tickets of P
MonthCountsOk(P, tbl) ==
    \A row \in tbl.rows :
        row.month # "Total" =>
            /\ row.total_count = Cardinality(InMonth(P, row.month))
            /\ 0 <= row.resolved_count
            /\ row.resolved_count <= row.total_count

\* C26: in each KPI table the total_count of every month row is the number
\* of in-scope requests and incidents of the partition started in that month,
\* and 0 <= resolved_count <= total_count: the pivot loses no ticket and
\* counts none twice, whatever the totals and the names of the services.
C26_MonthCounts ==
    /\ Fetched("get_infra_kpi_stats") => MonthCountsOk(InfraPartition, infra_kpi_stats)
    /\ Fetched("get_app_kpi_stats") => MonthCountsOk(AppPartition, app_kpi_stats)

\* what holds of the month rows: resolved_count lies between 0 and
\* total_count, and total_count is at most the number of tickets of the month
MonthCountsBounded ==
    \A tbl \in (IF Fetched("get_app_kpi_stats")
                THEN {<<InfraPartition, infra_kpi_stats>>, <<AppPartition, app_kpi_stats>>}
                ELSE {}) :
        \A row \in tbl[2].rows :
            row.month # "Total" =>
                /\ 0 <= row.resolved_count
                /\ row.resolved_count <= row.total_count
                /\ row.total_count <= Cardinality(InMonth(tbl[1], row.month))

----------------------------------------------------------------------------
(* The summary and the status breakdowns *)

\* the class counts of the summary row s are numbers, add up to its total
\* and are the totals of the three status breakdowns
SummaryAddsUp(s) ==
    /\ s.request_total # NULLNUM /\ s.Incident_total # NULLNUM /\ s.change_total # NULLNUM
    /\ s.total = s.request_total + s.Incident_total + s.change_total
    /\ s.request_total = user_request_stats[1].total
    /\ s.Incident_total = incident_stats[1].total
    /\ s.change_total = change_stats[1].total

\* C27: for any data and period the summary agrees with the status
\* breakdowns: total = request_total + Incident_total + change_total, and the
\* three class counts are the totals of get_user_request_stats,
\* get_incident_stats and get_change_stats.
C27_SummaryConsistent ==
    Fetched("get_change_stats") => SummaryAddsUp(ticket_summary[1])

\* what holds of the summary: it agrees with the breakdowns in every period
\* with an in-scope ticket
SummaryConsistentWithTickets ==
    (Fetched("get_change_stats") /\ InScope(AllClasses) # {}) =>
        SummaryAddsUp(ticket_summary[1])

----------------------------------------------------------------------------
(* The unresolved tickets in the list, the breakdowns and the team groups *)

\* every ticket has a team
AllHaveTeam ==
    \A i \in DOMAIN db :
        db[i].team_id \in DOMAIN contact /\ contact[db[i].team_id].finalclass = "Team"

\* the unresolved_total of the three status breakdowns
UnresolvedTotals ==
    <<user_request_stats[1].unresolved_total, incident_stats[1].unresolved_total,
      change_stats[1].unresolved_total>>

\* the unresolved column added over the team groups
TeamUnresolved == SumOver(team_stats, [row \in team_stats |-> row.unresolved])

\* C28: for any data and period the number of rows of get_unresolved_tickets
\* is the sum of unresolved_total over the three status breakdowns, and is
\* the sum of the unresolved column over the groups of get_team_stats when
\* every ticket has a team.
C28_UnresolvedConsistent ==
    Fetched("get_unresolved_tickets") =>
        /\ \A k \in 1..3 : UnresolvedTotals[k] # NULLNUM
        /\ Cardinality(unresolved_tickets)
              = UnresolvedTotals[1] + UnresolvedTotals[2] + UnresolvedTotals[3]
        /\ AllHaveTeam => Cardinality(unresolved_tickets) = TeamUnresolved

\* what holds of the unresolved tickets: the list has as many rows as the
\* breakdowns with a ticket count unresolved, and as the team groups count
\* when every ticket has a team
UnresolvedConsistentWhereCounted ==
    Fetched("get_unresolved_tickets") =>
        /\ Cardinality(unresolved_tickets)
              = SumOver({k \in 1..3 : UnresolvedTotals[k] # NULLNUM},
                        [k \in 1..3 |-> UnresolvedTotals[k]])
        /\ AllHaveTeam => Cardinality(unresolved_tickets) = TeamUnresolved

----------------------------------------------------------------------------
(* The tickets counted by the team and agent statistics *)

\* the count column added over the groups of a time table
CountOver(rows) == SumOver(rows, [row \in rows |-> row.count])

\* ticket i is counted in exactly one group of the team statistics
InOneTeamGroup(i) == Cardinality({row \in team_stats : i \in TeamGroup(row)}) = 1

\* ticket i is counted in exactly one group of the agent statistics
InOnePersonGroup(i) == Cardinality({row \in person_stats : i \in PersonGroup(row)}) = 1

\* C29: every in-scope request, incident and change is counted in exactly
\* one group of get_team_stats and in exactly one group of get_person_stats,
\* and the count column added over the groups is the total of the summary,
\* also for tickets without a team or without an agent.
C29_EveryTicketGrouped ==
    Fetched("get_person_stats") =>
        /\ \A i \in InScope(AllClasses) : InOneTeamGroup(i) /\ InOnePersonGroup(i)
        /\ CountOver(team_stats) = ticket_summary[1].total
        /\ CountOver(person_stats) = ticket_summary[1].total

\* what holds of the groups: a ticket with a team is in exactly one team
\* group, a ticket with an agent in exactly one agent group, a ticket without
\* in none, and the counts add up to the tickets with a team or an agent
GroupedWhenAssigned ==
    Fetched("get_person_stats") =>
        /\ \A i \in InScope(AllClasses) :
              /\ IF db[i].team_id \in DOMAIN contact /\ contact[db[i].team_id].finalclass = "Team"
                 THEN InOneTeamGroup(i)
                 ELSE \A row \in team_stats : i \notin TeamGroup(row)
              /\ IF db[i].agent_id \in DOMAIN agent_info
                 THEN InOnePersonGroup(i)
                 ELSE \A row \in person_stats : i \notin PersonGroup(row)
        /\ CountOver(team_stats) <= ticket_summary[1].total
        /\ CountOver(person_stats) <= ticket_summary[1].total

----------------------------------------------------------------------------
(* The percentages of the narratives *)

\* the percentages a narrative prints
Percentages(figures) ==
    {figures.resolved_percentage.num, figures.closed_percentage.num,
     figures.unresolved_percentage.num} \ {NULLNUM}

\* the status narratives of the views rendered so far
Narratives ==
    {s \in UNION {{v[1].requests, v[1].incidents, v[1].changes} : v \in {view, pdf} \ {<<>>}} :
        s.text = "narrative"}

\* C30: every percentage printed in a status narrative of either view lies
\* between 0% and 100% when the breakdown has total > 0, that of the changes
\* narrative computed as resolved_total / closed_total among them.
C30_PercentagesInRange ==
    \A s \in Narratives : \A h \in Percentages(s.figures) : 0 <= h /\ h <= 10000

\* what holds of the narratives: the percentages of requests and incidents
\* and the closed percentage of changes lie between 0% and 100%
PercentagesInRangeButChanges ==
    /\ \A s \in Narratives : 0 <= s.figures.closed_percentage.num
                             /\ s.figures.closed_percentage.num <= 10000
    /\ \A v \in {view, pdf} \ {<<>>} : \A s \in {v[1].requests, v[1].incidents} :
          s.text = "narrative" =>
              \A h \in Percentages(s.figures) : 0 <= h /\ h <= 10000

====
